---- MODULE Spec2Model ----
(***************************************************************************)
(* A model of the type resolution and schema materialization core of tsoa: *)
(* TypeResolver (src/src/metadataGeneration/typeResolver.ts), the parts of *)
(* RouteGenerator that materialize the resolved types                      *)
(* (src/src/routeGeneration/routeGenerator.ts) and the JSDoc helpers.      *)
(*                                                                         *)
(* Syntax trees are records.  A type node is                               *)
(*   [kind, typeName, sub, literalKind, text]                              *)
(* where typeName is the sequence of identifiers of an entity name         *)
(* (<<"NS", "E">> for NS.E), sub holds the type arguments of a             *)
(* TypeReference, the members of a union or intersection, or the single    *)
(* element type of an ArrayType, and literalKind/text describe the literal *)
(* of a LiteralType.                                                       *)
(*                                                                         *)
(* Descriptors that the code shares by reference (Tsoa.ReferenceType) live *)
(* in a heap and are named by their index; a resolved Tsoa.Type that is a  *)
(* reference is [dataType |-> "ref", ref |-> index].                       *)
(*                                                                         *)
(* Three identifiers of typeResolver.ts have no declaration in the file    *)
(* and are read as the declarations they evidently stand for:              *)
(*   node (lines 384-396)          the parameter typeNode of getAnyTypeName*)
(*   getModelAdditionalProperties  getModelAdditionalPropertiesType (646)  *)
(*   isExistJSDocTag               JSDocTagExists of jsDocUtils.ts (53)    *)
(***************************************************************************)
EXTENDS Integers, Sequences, FiniteSets, TLC

VARIABLES
  nodes,                        \* MetadataGenerator.nodes: the top-level declarations
  localReferenceTypeCache,      \* typeResolver.ts:18, canonical name -> heap index
  inProgressTypes,              \* typeResolver.ts:19
  heap,                         \* the Tsoa.ReferenceType objects allocated so far
  referenceTypeMap,             \* MetadataGenerator.referenceTypeMap, in insertion order
  circularDependencyResolvers,  \* MetadataGenerator's OnFinish queue
  status,                       \* "running" | "failed" | "hung" | "finished"
  lastOp,                       \* what the last step did
  lastCall,                     \* the arguments and the outcome of the last resolve()
  nres,                         \* number of top-level resolve() calls so far
  arg,                          \* argument of the function under test (function specs)
  ret                           \* its result

vars == <<nodes, localReferenceTypeCache, inProgressTypes, heap, referenceTypeMap,
          circularDependencyResolvers, status, lastOp, lastCall, nres, arg, ret>>

-----------------------------------------------------------------------------
(* Bounds *)

\* Deepest nesting of calls before the engine's call stack is exhausted.
MaxCallDepth == 12
\* Iterations of the scope-narrowing loop that are followed before the loop
\* is reported as never ending.
MaxScopeIterations == 3
\* Top-level resolve() calls in one behaviour.
MaxResolves == 2

-----------------------------------------------------------------------------
(* Generic helpers *)

RECURSIVE SelectSeqIdx(_, _, _)
\* indices i of s, in order, from position i on, with Test(s[i])
SelectSeqIdx(s, Test(_), i) ==
  IF i > Len(s) THEN <<>>
  ELSE (IF Test(s[i]) THEN <<i>> ELSE <<>>) \o SelectSeqIdx(s, Test, i + 1)

RECURSIVE Join(_, _)
\* Array.prototype.join
Join(s, sep) ==
  IF Len(s) = 0 THEN ""
  ELSE IF Len(s) = 1 THEN s[1]
  ELSE s[1] \o sep \o Join(Tail(s), sep)

\* String.prototype.includes
Includes(hay, needle) ==
  \E i \in 0..(Len(hay) - Len(needle)) : SubSeq(hay, i + 1, i + Len(needle)) = needle

\* An optional value is a sequence of at most one element: <<>> is undefined.
Undefined == <<>>
Some(v) == <<v>>
IsDefined(o) == Len(o) > 0

\* obj[key] = value on an object whose keys are kept in insertion order
SetKey(obj, key, value) ==
  LET at == SelectSeqIdx(obj, LAMBDA e : e.key = key, 1)
  IN IF Len(at) > 0 THEN [obj EXCEPT ![at[1]] = [key |-> key, value |-> value]]
     ELSE Append(obj, [key |-> key, value |-> value])

Keys(obj) == [i \in DOMAIN obj |-> obj[i].key]

Get(obj, key) ==
  LET at == SelectSeqIdx(obj, LAMBDA e : e.key = key, 1)
  IN IF Len(at) = 0 THEN Undefined ELSE Some(obj[at[1]].value)

StartsWith(s, prefix) ==
  Len(prefix) <= Len(s) /\ SubSeq(s, 1, Len(prefix)) = prefix

LowerChar(c) ==
  CASE c = "A" -> "a" [] c = "B" -> "b" [] c = "C" -> "c" [] c = "D" -> "d"
    [] c = "E" -> "e" [] c = "F" -> "f" [] c = "G" -> "g" [] c = "H" -> "h"
    [] c = "I" -> "i" [] c = "J" -> "j" [] c = "K" -> "k" [] c = "L" -> "l"
    [] c = "M" -> "m" [] c = "N" -> "n" [] c = "O" -> "o" [] c = "P" -> "p"
    [] c = "Q" -> "q" [] c = "R" -> "r" [] c = "S" -> "s" [] c = "T" -> "t"
    [] c = "U" -> "u" [] c = "V" -> "v" [] c = "W" -> "w" [] c = "X" -> "x"
    [] c = "Y" -> "y" [] c = "Z" -> "z" [] OTHER -> c

RECURSIVE ToLowerCase(_)
ToLowerCase(s) ==
  IF Len(s) = 0 THEN ""
  ELSE LowerChar(SubSeq(s, 1, 1)) \o ToLowerCase(SubSeq(s, 2, Len(s)))

RECURSIVE ReplaceBackslashes(_)
\* fileName.replace(/\\/g, '/')
ReplaceBackslashes(s) ==
  IF Len(s) = 0 THEN ""
  ELSE (IF SubSeq(s, 1, 1) = "\\" THEN "/" ELSE SubSeq(s, 1, 1))
         \o ReplaceBackslashes(SubSeq(s, 2, Len(s)))

-----------------------------------------------------------------------------
(* Syntax: type nodes *)

TypeNode(kind, typeName, sub, literalKind, text) ==
  [kind |-> kind, typeName |-> typeName, sub |-> sub,
   literalKind |-> literalKind, text |-> text]

Keyword(kind) == TypeNode(kind, <<>>, <<>>, "", "")
TypeReference(name) == TypeNode("TypeReference", <<name>>, <<>>, "", "")
QualifiedReference(segments) == TypeNode("TypeReference", segments, <<>>, "", "")
GenericReference(name, typeArguments) ==
  TypeNode("TypeReference", <<name>>, typeArguments, "", "")
ArrayTypeNode(elementType) == TypeNode("ArrayType", <<>>, <<elementType>>, "", "")
UnionTypeNode(types) == TypeNode("UnionType", <<>>, types, "", "")
IntersectionTypeNode(types) == TypeNode("IntersectionType", <<>>, types, "", "")
LiteralTypeNode(literalKind, text) == TypeNode("LiteralType", <<>>, <<>>, literalKind, text)

NumberKeyword == Keyword("NumberKeyword")
StringKeyword == Keyword("StringKeyword")
BooleanKeyword == Keyword("BooleanKeyword")
VoidKeyword == Keyword("VoidKeyword")
AnyKeyword == Keyword("AnyKeyword")
ObjectKeyword == Keyword("ObjectKeyword")
TypeLiteral == Keyword("TypeLiteral")
TupleType == Keyword("TupleType")

\* syntaxKindMap
syntaxKindMap(kind) ==
  CASE kind = "NumberKeyword" -> "number"
    [] kind = "StringKeyword" -> "string"
    [] kind = "BooleanKeyword" -> "boolean"
    [] kind = "VoidKeyword" -> "void"
    [] OTHER -> ""

\* an error that was thrown: its class and its message
Error(class, message) == [class |-> class, message |-> message]
NoError == Error("", "")
GenerateMetadataError(message) == Error("GenerateMetadataError", message)
\* the call stack is exhausted
RangeError == Error("RangeError", "Maximum call stack size exceeded")
\* the call never returns
Diverges == Error("(never returns)", "")

getEntityNameSimpleText(typeName) == typeName[Len(typeName)]

getEntityNameFullText(typeName) == Join(typeName, ".")

-----------------------------------------------------------------------------
(* Syntax: declarations and their members *)

\* a JSDoc tag, its comment optional; the jsDoc of a node is a sequence of JSDoc
\* blocks, each with an optional comment and its tags
JSDocTag(tagName, comment) == [tagName |-> tagName, comment |-> comment]
JSDoc(comment, tags) == [comment |-> comment, tags |-> tags]

\* a member of an interface, a class or an enum, or a parameter; parentJsDoc is
\* the jsDoc of the node's parent (read for a Parameter only)
Member(kind, name, type, questionToken, jsDoc, modifiers, initializer, parameters, parentJsDoc) ==
  [kind |-> kind, name |-> name, type |-> type, questionToken |-> questionToken,
   jsDoc |-> jsDoc, modifiers |-> modifiers, initializer |-> initializer,
   parameters |-> parameters, parentJsDoc |-> parentJsDoc]

PropertySignature(name, type, questionToken, jsDoc) ==
  Member("PropertySignature", name, Some(type), questionToken, jsDoc, <<>>, Undefined,
         <<>>, <<>>)
\* a property signature without a type annotation
UntypedPropertySignature(name) ==
  Member("PropertySignature", name, Undefined, FALSE, <<>>, <<>>, Undefined, <<>>, <<>>)
MethodSignature(name) ==
  Member("MethodSignature", name, Undefined, FALSE, <<>>, <<>>, Undefined, <<>>, <<>>)
PropertyDeclaration(name, type, questionToken, modifiers, initializer) ==
  Member("PropertyDeclaration", name, Some(type), questionToken, <<>>, modifiers,
         initializer, <<>>, <<>>)
Parameter(name, type, modifiers, parentJsDoc) ==
  Member("Parameter", name, Some(type), FALSE, <<>>, modifiers, Undefined, <<>>,
         parentJsDoc)
Constructor(parameters) ==
  Member("Constructor", "constructor", Undefined, FALSE, <<>>, <<>>, Undefined,
         parameters, <<>>)
IndexSignature(keyType, type) ==
  Member("IndexSignature", "", Some(type), FALSE, <<>>, <<>>, Undefined,
         <<Parameter("key", keyType, <<>>, <<>>)>>, <<>>)
\* an initializer: its source text (getText) and, for an initializer with a
\* sub-expression such as an AsExpression, the text of that expression
Initializer(text, expression) == [text |-> text, expression |-> expression]
EnumMember(name, initializer) ==
  Member("EnumMember", name, Undefined, FALSE, <<>>, <<>>, initializer, <<>>, <<>>)
\* a node without JSDoc, such as the TypeReference that holds a type argument
PlainNode(kind) ==
  Member(kind, "", Undefined, FALSE, <<>>, <<>>, Undefined, <<>>, <<>>)

\* a statement of a source file or of a module block
Declaration(kind, name, exported, fileName, jsDoc, typeParameters, members, heritage, type, statements) ==
  [kind |-> kind, name |-> name, exported |-> exported, fileName |-> fileName,
   jsDoc |-> jsDoc, typeParameters |-> typeParameters, members |-> members,
   heritage |-> heritage, type |-> type, statements |-> statements]

InterfaceDeclaration(name, typeParameters, heritage, members) ==
  Declaration("InterfaceDeclaration", name, TRUE, "src/models.ts", <<>>,
              typeParameters, members, heritage, <<>>, <<>>)
ClassDeclaration(name, heritage, members) ==
  Declaration("ClassDeclaration", name, TRUE, "src/models.ts", <<>>,
              <<>>, members, heritage, <<>>, <<>>)
TypeAliasDeclaration(name, type) ==
  Declaration("TypeAliasDeclaration", name, TRUE, "src/models.ts", <<>>,
              <<>>, <<>>, <<>>, <<type>>, <<>>)
EnumDeclaration(name, members) ==
  Declaration("EnumDeclaration", name, TRUE, "src/models.ts", <<>>,
              <<>>, members, <<>>, <<>>, <<>>)
ModuleDeclaration(name, exported, statements) ==
  Declaration("ModuleDeclaration", name, exported, "src/models.ts", <<>>,
              <<>>, <<>>, <<>>, <<>>, statements)

-----------------------------------------------------------------------------
(* jsDocUtils.ts *)

\* getJSDocTags: the tags of the first JSDoc block of the node that match
getJSDocTags(node, isMatching(_)) ==
  IF Len(node.jsDoc) = 0 THEN <<>>
  ELSE SelectSeq(node.jsDoc[1].tags, isMatching)

JSDocTagExists(node, isMatching(_)) ==
  Len(getJSDocTags(node, isMatching)) # 0

-----------------------------------------------------------------------------
(* MetadataGenerator: the part the resolver calls *)

IsExportedNode(node) == node.exported

-----------------------------------------------------------------------------
(* Canonical names *)

\* the result of a call: the error it threw (NoError if none) and its value
Return(v) == [err |-> NoError, v |-> v]
Throw(e) == [err |-> e, v |-> ""]
Failed(r) == r.err # NoError

RECURSIVE getAnyTypeName(_)
getAnyTypeName(typeNode) ==
  IF syntaxKindMap(typeNode.kind) # "" THEN Return(syntaxKindMap(typeNode.kind))
  ELSE IF typeNode.kind = "ArrayType" THEN
    LET element == getAnyTypeName(typeNode.sub[1])
    IN IF Failed(element) THEN element ELSE Return(element.v \o "Array")
  ELSE IF typeNode.kind = "UnionType" THEN Return("object")
  ELSE IF typeNode.kind = "TypeReference" THEN Return(getEntityNameFullText(typeNode.typeName))
  ELSE Throw(GenerateMetadataError("Unknown type: " \o typeNode.kind \o "."))

RECURSIVE getTypeName(_, _)
RECURSIVE getTypeNameSections(_, _)
\* the reduce of getTypeName: the name section of every generic argument from i on
getTypeNameSections(genericTypes, i) ==
  IF i > Len(genericTypes) THEN Return(<<>>)
  ELSE
    LET generic == genericTypes[i]
        section == IF generic.kind = "TypeReference" /\ Len(generic.sub) > 0
                   THEN getTypeName(getEntityNameFullText(generic.typeName), generic.sub)
                   ELSE getAnyTypeName(generic)
    IN IF Failed(section) THEN section
       ELSE LET rest == getTypeNameSections(genericTypes, i + 1)
            IN IF Failed(rest) THEN rest ELSE Return(<<section.v>> \o rest.v)

getTypeName(typeName, genericTypes) ==
  IF Len(genericTypes) = 0 THEN Return(typeName)
  ELSE LET resolvedName == getTypeNameSections(genericTypes, 1)
       IN IF Failed(resolvedName) THEN resolvedName
          ELSE Return(typeName \o Join(resolvedName.v, ""))

-----------------------------------------------------------------------------
(* Declaration Locator *)

nodeIsUsable(node) ==
  node.kind \in {"InterfaceDeclaration", "ClassDeclaration",
                 "TypeAliasDeclaration", "EnumDeclaration"}

\* the module declarations of the scope that match the leftmost name
matchingModuleDeclarations(state, leftmostName) ==
  SelectSeq(state, LAMBDA node :
    /\ node.kind = "ModuleDeclaration"
    /\ IsExportedNode(node)
    /\ ToLowerCase(node.name) = ToLowerCase(leftmostName))

RECURSIVE resolveModelTypeScopeLoop(_, _, _)
\* the while loop of resolveModelTypeScope.  leftmost is always the leftmost
\* identifier typeName[1]: its parent is a QualifiedName exactly when the name
\* has more than one segment.  The statements that would narrow the scope and
\* advance leftmost follow a throw inside the length > 1 branch, so with exactly
\* one matching module declaration nothing changes and the loop repeats.
resolveModelTypeScopeLoop(typeName, state, iteration) ==
  IF ~(Len(typeName) > 1) THEN Return(state)
  ELSE
    LET leftmostName == typeName[1]
        moduleDeclarations == matchingModuleDeclarations(state, leftmostName)
    IN IF Len(moduleDeclarations) = 0 THEN
         Throw(GenerateMetadataError(
           "No matching module declarations found for " \o leftmostName \o "."))
       ELSE IF Len(moduleDeclarations) > 1 THEN
         Throw(GenerateMetadataError(
           "Multiple matching module declarations found for " \o leftmostName
             \o "; please make module declarations unique."))
       ELSE IF iteration >= MaxScopeIterations THEN Throw(Diverges)
       ELSE resolveModelTypeScopeLoop(typeName, state, iteration + 1)

resolveModelTypeScope(typeName, statements) ==
  resolveModelTypeScopeLoop(typeName, statements, 1)

\* no file is a library file: the variant of isStandardLibrary that C6 must reject
isNeverStandardLibrary(modelType) == FALSE

isStandardLibrary(modelType) ==
  Includes(ToLowerCase(ReplaceBackslashes(modelType.fileName)), "node_modules/typescript")

isTsoaModelTag(tag) == tag.tagName = "tsoaModel"

\* what getModelTypeDeclaration does with the candidates once the scope is known
selectModelType(statements, typeName) ==
  LET modelTypes == SelectSeq(statements, LAMBDA node :
                      nodeIsUsable(node) /\ IsExportedNode(node) /\ node.name = typeName)
      userTypes == SelectSeq(modelTypes, LAMBDA modelType : ~isStandardLibrary(modelType))
      designatedModels == SelectSeq(userTypes, LAMBDA modelType :
                            JSDocTagExists(modelType, isTsoaModelTag))
      conflicts == Join([i \in DOMAIN userTypes |-> userTypes[i].fileName], "\"; \"")
  IN IF Len(modelTypes) = 0 THEN
       Throw(GenerateMetadataError(
         "No matching model found for referenced type " \o typeName \o ". If "
           \o typeName \o " comes from a dependency, please create an interface in your"
           \o " own code that has the same structure."))
     ELSE IF Len(modelTypes) = 1 THEN Return(modelTypes[1])
     ELSE IF Len(userTypes) = 0 THEN
       Throw(GenerateMetadataError("Multiple standard library models with name " \o typeName))
     ELSE IF Len(userTypes) = 1 THEN Return(userTypes[1])
     ELSE IF Len(designatedModels) = 1 THEN Return(designatedModels[1])
     ELSE IF Len(designatedModels) > 1 THEN
       Throw(GenerateMetadataError(
         "Multiple models for " \o typeName
           \o " marked with '@tsoaModel'; '@tsoaModel' should only be applied to one model."))
     ELSE
       Throw(GenerateMetadataError(
         "Multiple matching models found for referenced type " \o typeName
           \o "; please make model names unique. Conflicts found: \"" \o conflicts \o "\"."))

getModelTypeDeclaration(typeName, currentNodes) ==
  LET statements == resolveModelTypeScope(typeName, currentNodes)
  IN IF Failed(statements) THEN statements
     ELSE selectModelType(statements.v, getEntityNameSimpleText(typeName))

-----------------------------------------------------------------------------
(* Resolved types (Tsoa.Type) and reference descriptors (Tsoa.ReferenceType) *)

Type(dataType, sub, enums, ref) ==
  [dataType |-> dataType, sub |-> sub, enums |-> enums, ref |-> ref]
PrimitiveType(dataType) == Type(dataType, <<>>, Undefined, 0)
ArrayType(elementType) == Type("array", <<elementType>>, Undefined, 0)
EnumerateType(enums) == Type("enum", <<>>, Some(enums), 0)
UnionType(types) == Type("union", types, Undefined, 0)
IntersectionType(types) == Type("intersection", types, Undefined, 0)
\* a Tsoa.ReferenceType held by reference: the heap index of the descriptor
Reference(id) == Type("ref", <<>>, Undefined, id)

\* a Tsoa.Property without validators
Property(name, type, required) ==
  [name |-> name, type |-> type, required |-> required, validators |-> <<>>]

\* a descriptor object; properties, description, additionalProperties and enums
\* are optional
ReferenceType(dataType, refName, description, properties, additionalProperties, enums) ==
  [dataType |-> dataType, refName |-> refName, description |-> description,
   properties |-> properties, additionalProperties |-> additionalProperties,
   enums |-> enums]

-----------------------------------------------------------------------------
(* The state the resolver works on, threaded through every call:           *)
(*   nodes       MetadataGenerator.nodes                                   *)
(*   cache       localReferenceTypeCache                                   *)
(*   inProgress  inProgressTypes                                           *)
(*   heap        the descriptor objects                                    *)
(*   refMap      MetadataGenerator.referenceTypeMap: <<[name, id], ...>>   *)
(*   resolvers   MetadataGenerator.circularDependencyResolvers             *)
(*   err         the error thrown, NoError while none was                  *)
(*   log         how each getReferenceType call of the current resolve()   *)
(*               was answered (kept for the properties, not by the code)   *)

Ok(s, v) == [s |-> s, v |-> v]
Fail(s, e) == [s |-> [s EXCEPT !.err = e], v |-> <<>>]
Thrown(r) == r.s.err # NoError

Logged(s, name, how) == [s EXCEPT !.log = Append(@, [name |-> name, how |-> how])]

\* MetadataGenerator.AddReferenceType
AddReferenceType(s, id) ==
  LET refName == s.heap[id].refName
      at == SelectSeqIdx(s.refMap, LAMBDA e : e.name = refName, 1)
  IN IF refName = "" THEN s
     ELSE IF Len(at) > 0 THEN [s EXCEPT !.refMap[at[1]] = [name |-> refName, id |-> id]]
     ELSE [s EXCEPT !.refMap = Append(@, [name |-> refName, id |-> id])]

\* MetadataGenerator.OnFinish
OnFinish(s, callback) == [s EXCEPT !.resolvers = Append(@, callback)]

-----------------------------------------------------------------------------
(* validatorUtils.ts (src/unnamed/part_002).  A Tsoa.Validators object is   *)
(* an object of [errorMsg, value] records keyed by tag name; a number is    *)
(* the record Decimal(unscaled, scale), standing for unscaled / 10^scale.   *)

\* String.prototype.indexOf of a one-character string: zero-based, or -1
stringIndexOf(text, char) ==
  LET at == {i \in 1..Len(text) : SubSeq(text, i, i) = char}
  IN IF at = {} THEN -1 ELSE (CHOOSE i \in at : \A j \in at : i <= j) - 1

\* String.prototype.substr(start)
Substr(text, start) == SubSeq(text, start + 1, Len(text))

\* String.prototype.trim, of spaces
Trim(text) ==
  LET at == {i \in 1..Len(text) : SubSeq(text, i, i) # " "}
  IN IF at = {} THEN ""
     ELSE SubSeq(text, CHOOSE i \in at : \A j \in at : i <= j,
                       CHOOSE i \in at : \A j \in at : i >= j)

\* text.split(' ')[0]
SplitFirst(text) ==
  IF stringIndexOf(text, " ") = -1 THEN text
  ELSE SubSeq(text, 1, stringIndexOf(text, " "))

IsDigits(text) ==
  Len(text) > 0 /\ \A i \in 1..Len(text) : stringIndexOf("0123456789", SubSeq(text, i, i)) >= 0

RECURSIVE DigitsToNumber(_)
\* the natural number a string of digits (or the empty string) denotes
DigitsToNumber(digits) ==
  IF Len(digits) = 0 THEN 0
  ELSE 10 * DigitsToNumber(SubSeq(digits, 1, Len(digits) - 1))
       + stringIndexOf("0123456789", SubSeq(digits, Len(digits), Len(digits)))

RECURSIVE Decimal(_, _)
\* the number unscaled / 10^scale, in lowest scale
Decimal(unscaled, scale) ==
  IF scale > 0 /\ unscaled % 10 = 0 THEN Decimal(unscaled \div 10, scale - 1)
  ELSE [unscaled |-> unscaled, scale |-> scale]

\* the value that is not a number
NaN == [unscaled |-> 0, scale |-> -1]

\* Number(text) of a string of digits, signs, points, spaces and other
\* characters that are no part of a numeric literal (no exponent, radix prefix
\* or Infinity): the StringNumericLiteral grammar of decimal literals
StringToNumber(text) ==
  LET trimmed == Trim(text)
      signed == Len(trimmed) > 0 /\ SubSeq(trimmed, 1, 1) \in {"+", "-"}
      sign == IF signed /\ SubSeq(trimmed, 1, 1) = "-" THEN -1 ELSE 1
      digits == IF signed THEN Substr(trimmed, 1) ELSE trimmed
      point == stringIndexOf(digits, ".")
      whole == IF point = -1 THEN digits ELSE SubSeq(digits, 1, point)
      fraction == IF point = -1 THEN "" ELSE Substr(digits, point + 1)
  IN IF trimmed = "" THEN Decimal(0, 0)
     ELSE IF /\ whole = "" \/ IsDigits(whole)
             /\ fraction = "" \/ IsDigits(fraction)
             /\ whole # "" \/ fraction # ""
       THEN Decimal(sign * DigitsToNumber(whole \o fraction), Len(fraction))
     ELSE NaN

\* only undefined is no number: the variant of IsNaN that C11 must reject
OnlyUndefinedIsNaN(value) == ~IsDefined(value)

\* isNaN of an optional string: undefined converts to NaN
IsNaN(value) ==
  IF ~IsDefined(value) THEN TRUE ELSE StringToNumber(value[1]) = NaN

\* whether the year, month and day are a date of the calendar
IsCalendarDate(year, month, day) ==
  LET leap == (year % 4 = 0 /\ year % 100 # 0) \/ year % 400 = 0
      days == CASE month \in {4, 6, 9, 11} -> 30
                [] month = 2 -> IF leap THEN 29 ELSE 28
                [] OTHER -> 31
  IN month \in 1..12 /\ day \in 1..days

\* moment(value, moment.ISO_8601, true).isValid() of an optional string that is
\* a calendar date YYYY-MM-DD or no ISO 8601 text at all (moment is a library)
IsValidISO8601(value) ==
  /\ IsDefined(value)
  /\ Len(value[1]) = 10
  /\ SubSeq(value[1], 5, 5) = "-" /\ SubSeq(value[1], 8, 8) = "-"
  /\ IsDigits(SubSeq(value[1], 1, 4))
  /\ IsDigits(SubSeq(value[1], 6, 7))
  /\ IsDigits(SubSeq(value[1], 9, 10))
  /\ IsCalendarDate(DigitsToNumber(SubSeq(value[1], 1, 4)),
                    DigitsToNumber(SubSeq(value[1], 6, 7)),
                    DigitsToNumber(SubSeq(value[1], 9, 10)))

\* whether an optional string is truthy
IsTruthyString(text) == IsDefined(text) /\ text[1] # ""

supportedParameterTags ==
  <<"isString", "isBoolean", "isInt", "isLong", "isFloat", "isDouble", "isDate",
    "isDateTime", "minItems", "maxItems", "uniqueItems", "minLength", "maxLength",
    "pattern", "minimum", "maximum", "minDate", "maxDate">>

\* supportedParameterTags.some(value => value === tagName)
isSupportedParameterTag(tagName) ==
  \E i \in DOMAIN supportedParameterTags : supportedParameterTags[i] = tagName

\* getValue: the optional first word of the optional comment
getValue(comment) ==
  IF ~IsTruthyString(comment) THEN Undefined ELSE Some(SplitFirst(comment[1]))

\* getErrorMsg: the optional message of the optional comment
getErrorMsg(comment, isValue) ==
  IF ~IsTruthyString(comment) THEN Undefined
  ELSE IF isValue THEN
    (IF stringIndexOf(comment[1], " ") > 0
     THEN Some(Substr(comment[1], stringIndexOf(comment[1], " ") + 1))
     ELSE Undefined)
  ELSE comment

Validator(errorMsg, value) == [errorMsg |-> errorMsg, value |-> value]

\* getValidator: the optional validator, or the error thrown
getValidator(name, comment, value) ==
  IF name = "uniqueItems" THEN Return(Some(Validator(getErrorMsg(comment, FALSE), Undefined)))
  ELSE IF name \in {"minimum", "maximum", "minItems", "maxItems", "minLength", "maxLength"} THEN
    IF IsNaN(value) THEN Throw(GenerateMetadataError(name \o " parameter use number."))
    ELSE Return(Some(Validator(getErrorMsg(comment, TRUE), Some(StringToNumber(value[1])))))
  ELSE IF name \in {"minDate", "maxDate"} THEN
    IF ~IsValidISO8601(value) THEN
      Throw(GenerateMetadataError(
        name \o " parameter use date format ISO 8601 ex. 2017-05-14, 2017-05-14T05:18Z"))
    ELSE Return(Some(Validator(getErrorMsg(comment, TRUE), value)))
  ELSE IF name = "pattern" THEN
    IF ~IsDefined(value) THEN Throw(GenerateMetadataError(name \o " patameter use string."))
    ELSE Return(Some(Validator(getErrorMsg(comment, TRUE), value)))
  ELSE IF StartsWith(name, "is") /\ IsTruthyString(getErrorMsg(comment, FALSE)) THEN
    Return(Some(Validator(getErrorMsg(comment, FALSE), Undefined)))
  ELSE Return(Undefined)

\* one step of the reduce of getPropertyValidators and getParameterValidators:
\* validateObj with the validator assigned under its name, if there is one
assignValidator(validateObj, name, validator) ==
  IF Failed(validateObj) THEN validateObj
  ELSE IF Failed(validator) THEN validator
  ELSE IF ~IsDefined(validator.v) THEN validateObj
  ELSE Return(SetKey(validateObj.v, name, validator.v[1]))

RECURSIVE reducePropertyTags(_, _, _)
reducePropertyTags(tags, validateObj, i) ==
  IF i > Len(tags) \/ Failed(validateObj) THEN validateObj
  ELSE reducePropertyTags(tags,
         assignValidator(validateObj, tags[i].tagName,
                         getValidator(tags[i].tagName, tags[i].comment,
                                      getValue(tags[i].comment))),
         i + 1)

getPropertyValidators(property) ==
  reducePropertyTags(
    getJSDocTags(property, LAMBDA tag : isSupportedParameterTag(tag.tagName)),
    Return(<<>>), 1)

\* the comment of a tag of a parameter, after the word that addresses it
parameterComment(comment) == Trim(Substr(comment, stringIndexOf(comment, " ") + 1))

RECURSIVE reduceParameterTags(_, _, _)
reduceParameterTags(tags, validateObj, i) ==
  IF i > Len(tags) \/ Failed(validateObj) THEN validateObj
  ELSE reduceParameterTags(tags,
         assignValidator(validateObj, tags[i].tagName,
                         getValidator(tags[i].tagName,
                                      Some(parameterComment(tags[i].comment[1])),
                                      getValue(Some(parameterComment(tags[i].comment[1]))))),
         i + 1)

\* getParameterValidators of a parameter of a parsed method (it has a parent)
getParameterValidators(parameter, parameterName) ==
  reduceParameterTags(
    getJSDocTags([jsDoc |-> parameter.parentJsDoc], LAMBDA tag :
      /\ IsTruthyString(tag.comment)
      /\ isSupportedParameterTag(tag.tagName)
      /\ StartsWith(tag.comment[1], parameterName)),
    Return(<<>>), 1)

-----------------------------------------------------------------------------
(* TypeResolver: the parts that read the syntax only *)

getJSDocTagNames(node) ==
  LET tags == IF node.kind = "Parameter"
              THEN getJSDocTags([jsDoc |-> node.parentJsDoc], LAMBDA tag :
                     IsDefined(tag.comment) /\ StartsWith(tag.comment[1], node.name))
              ELSE getJSDocTags(node, LAMBDA tag : IsDefined(tag.comment))
  IN [i \in DOMAIN tags |-> tags[i].tagName]

\* getPrimitiveType: the optional primitive type of a keyword
getPrimitiveType(typeNode, parentNode) ==
  LET primitiveType == syntaxKindMap(typeNode.kind)
      tags == SelectSeq(getJSDocTagNames(parentNode[1]), LAMBDA name :
                name \in {"isInt", "isLong", "isFloat", "isDouble"})
  IN IF primitiveType = "" THEN Undefined
     ELSE IF primitiveType = "number" THEN
       IF ~IsDefined(parentNode) THEN Some(PrimitiveType("double"))
       ELSE IF Len(tags) = 0 THEN Some(PrimitiveType("double"))
       ELSE CASE tags[1] = "isInt" -> Some(PrimitiveType("integer"))
              [] tags[1] = "isLong" -> Some(PrimitiveType("long"))
              [] tags[1] = "isFloat" -> Some(PrimitiveType("float"))
              [] tags[1] = "isDouble" -> Some(PrimitiveType("double"))
              [] OTHER -> Some(PrimitiveType("double"))
     ELSE Some(PrimitiveType(primitiveType))

\* a date type that ignores the tags: the variant of getDateType that C13 must reject
dateTimeOnly(parentNode) == PrimitiveType("datetime")

getDateType(parentNode) ==
  LET tags == SelectSeq(getJSDocTagNames(parentNode[1]), LAMBDA name :
                name \in {"isDate", "isDateTime"})
  IN IF ~IsDefined(parentNode) THEN PrimitiveType("datetime")
     ELSE IF Len(tags) = 0 THEN PrimitiveType("datetime")
     ELSE CASE tags[1] = "isDate" -> PrimitiveType("date")
            [] tags[1] = "isDateTime" -> PrimitiveType("datetime")
            [] OTHER -> PrimitiveType("datetime")

\* the source text of the literal of a LiteralType node (getText)
literalGetText(typeNode) ==
  CASE typeNode.literalKind = "StringLiteral" -> "\"" \o typeNode.text \o "\""
    [] typeNode.literalKind = "TrueKeyword" -> "true"
    [] typeNode.literalKind = "FalseKeyword" -> "false"
    [] OTHER -> typeNode.text

\* String.prototype.substring(start, end) for 0 <= start, end <= length
Substring(text, start, end) ==
  IF start <= end THEN SubSeq(text, start + 1, end)
  ELSE SubSeq(text, end + 1, start)

getNodeDescription(node) ==
  IF Len(node.jsDoc) = 0 THEN Undefined ELSE node.jsDoc[1].comment

getEnumValue(member) ==
  IF IsDefined(member.initializer) THEN
    IF member.initializer[1].expression # "" THEN member.initializer[1].expression
    ELSE member.initializer[1].text
  ELSE ""

Digit(d) == SubSeq("0123456789", d + 1, d + 1)

RECURSIVE IndexToString(_)
\* Number.prototype.toString of a natural number
IndexToString(index) ==
  IF index < 10 THEN Digit(index)
  ELSE IndexToString(index \div 10) \o Digit(index % 10)

\* getEnumerateType: the optional enum of that name, as the descriptor fields
\* [description, enums, refName]
getEnumerateType(currentNodes, typeName) ==
  LET enumName == getEntityNameSimpleText(typeName)
      enumNodes == SelectSeq(currentNodes, LAMBDA node :
                     node.kind = "EnumDeclaration" /\ node.name = enumName)
      enumDeclaration == enumNodes[1]
      enums == [i \in DOMAIN enumDeclaration.members |->
                  IF getEnumValue(enumDeclaration.members[i]) # ""
                  THEN getEnumValue(enumDeclaration.members[i])
                  ELSE IndexToString(i - 1)]
  IN IF Len(enumNodes) = 0 THEN Return(Undefined)
     ELSE IF Len(enumNodes) > 1 THEN
       Throw(GenerateMetadataError(
         "Multiple matching enum found for enum " \o enumName
           \o "; please make enum names unique."))
     ELSE Return(Some([description |-> getNodeDescription(enumDeclaration),
                       enums |-> enums, refName |-> enumName]))

\* no alias is a literal type: the variant of getLiteralType that C19 must reject
noLiteralType(currentNodes, typeName) == Return(Undefined)

\* getLiteralType: the optional type of a type alias of that name whose target
\* is a union
getLiteralType(currentNodes, typeName) ==
  LET literalName == getEntityNameSimpleText(typeName)
      literalTypes == SelectSeq(currentNodes, LAMBDA node :
                        /\ node.kind = "TypeAliasDeclaration"
                        /\ node.type[1].kind = "UnionType"
                        /\ node.name = literalName)
      unionTypes == literalTypes[1].type[1].sub
  IN IF Len(literalTypes) = 0 THEN Return(Undefined)
     ELSE IF Len(literalTypes) > 1 THEN
       Throw(GenerateMetadataError(
         "Multiple matching enum found for enum " \o literalName
           \o "; please make enum names unique."))
     ELSE IF \E i \in DOMAIN unionTypes : unionTypes[i].kind # "LiteralType" THEN
       Return(Some(PrimitiveType("any")))
     ELSE Return(Some(EnumerateType(
            [i \in DOMAIN unionTypes |->
               LET text == literalGetText(unionTypes[i])
               IN Substring(text, 1, Len(text) - 1)])))

isIgnored(e) == JSDocTagExists(e, LAMBDA tag : tag.tagName = "ignore")

hasPublicModifier(node) ==
  \A i \in DOMAIN node.modifiers :
    node.modifiers[i] \notin {"ProtectedKeyword", "PrivateKeyword"}

isAccessibleParameter(node) ==
  IF Len(node.modifiers) = 0 THEN FALSE
  ELSE IF \E i \in DOMAIN node.modifiers : node.modifiers[i] = "PublicKeyword" THEN TRUE
  ELSE /\ \E i \in DOMAIN node.modifiers : node.modifiers[i] = "ReadonlyKeyword"
       /\ ~ \E i \in DOMAIN node.modifiers :
              node.modifiers[i] \in {"ProtectedKeyword", "PrivateKeyword"}

\* lodash.indexof: the zero-based index of value in array, or -1
indexOf(array, value) ==
  LET at == SelectSeqIdx(array, LAMBDA x : x = value, 1)
  IN IF Len(at) = 0 THEN -1 ELSE at[1] - 1

-----------------------------------------------------------------------------
(* TypeResolver: resolution *)

RECURSIVE resolve(_, _, _, _, _)
RECURSIVE resolveEach(_, _, _, _, _, _)
RECURSIVE getReferenceType(_, _, _, _)
RECURSIVE getModelProperties(_, _, _, _)
RECURSIVE getInterfaceProperties(_, _, _, _, _)
RECURSIVE getAliasProperties(_, _, _, _)
RECURSIVE getClassProperties(_, _, _, _)
RECURSIVE getModelAdditionalPropertiesType(_, _, _)
RECURSIVE getModelInheritedProperties(_, _, _, _)

\* createCircularDependencyResolver: a placeholder descriptor, and a callback
\* that will patch it
createCircularDependencyResolver(s, refName) ==
  LET referenceType == ReferenceType("refObject", refName, Undefined, Undefined,
                                     Undefined, Undefined)
      id == Len(s.heap) + 1
      allocated == [s EXCEPT !.heap = Append(@, referenceType)]
  IN Ok(OnFinish(allocated, [referenceType |-> id, refName |-> refName]), id)

\* the value of the result r passed through F, or the exception r is
MapValue(r, F(_)) == IF Thrown(r) THEN r ELSE Ok(r.s, F(r.v))

\* the values so far with the value of the result r pushed, or the exception r is
Pushed(values, r) == IF Thrown(r) THEN r ELSE Ok(r.s, Append(values, r.v))

\* the values so far with the values of the result r pushed
Concatenated(values, r) == IF Thrown(r) THEN r ELSE Ok(r.s, values \o r.v)

\* the types of a union or an intersection, each resolved in turn from the i-th
\* on; r holds the state and the types resolved so far
resolveEach(r, types, parentNode, extractEnum, depth, i) ==
  IF Thrown(r) THEN r
  ELSE IF i > Len(types) THEN r
  ELSE resolveEach(Pushed(r.v, resolve(r.s, types[i], parentNode, extractEnum, depth)),
                   types, parentNode, extractEnum, depth, i + 1)

\* the reference a resolved descriptor is returned as, once it is registered
\* with the MetadataGenerator
addReferenceType(referenceType) ==
  IF Thrown(referenceType) THEN referenceType
  ELSE Ok(AddReferenceType(referenceType.s, referenceType.v), Reference(referenceType.v))

\* what resolve does with a node that is a TypeReference, from line 127 on
resolveReference(s, typeReference, extractEnum, depth) ==
  LET enumType == getEnumerateType(s.nodes, typeReference.typeName)
      literalType == getLiteralType(s.nodes, typeReference.typeName)
      typeArguments == IF Len(typeReference.sub) = 1 THEN typeReference.sub ELSE <<>>
  IN IF ~extractEnum /\ Failed(enumType) THEN Fail(s, enumType.err)
     ELSE IF ~extractEnum /\ IsDefined(enumType.v) THEN
       Ok(s, EnumerateType(enumType.v[1].enums))
     ELSE IF Failed(literalType) THEN Fail(s, literalType.err)
     ELSE IF IsDefined(literalType.v) THEN Ok(s, literalType.v[1])
     ELSE addReferenceType(
            getReferenceType(s, typeReference.typeName, typeArguments, depth + 1))

\* the enum of the literals of a union of literal types
getUnionLiterals(types) ==
  [i \in DOMAIN types |->
     CASE types[i].literalKind = "TrueKeyword" -> "true"
       [] types[i].literalKind = "FalseKeyword" -> "false"
       [] OTHER -> types[i].text]

\* TypeResolver.resolve for the node typeNode, with the optional parentNode
resolve(s, typeNode, parentNode, extractEnum, depth) ==
  LET primitiveType == getPrimitiveType(typeNode, parentNode)
      isIdentifier == Len(typeNode.typeName) = 1
      name == typeNode.typeName[1]
  IN IF depth > MaxCallDepth THEN Fail(s, RangeError)
     ELSE IF IsDefined(primitiveType) THEN Ok(s, primitiveType[1])
     ELSE IF typeNode.kind = "ArrayType" THEN
       MapValue(resolve(s, typeNode.sub[1], Undefined, TRUE, depth + 1), ArrayType)
     ELSE IF typeNode.kind = "UnionType" THEN
       IF \A i \in DOMAIN typeNode.sub : typeNode.sub[i].kind = "LiteralType" THEN
         Ok(s, EnumerateType(getUnionLiterals(typeNode.sub)))
       ELSE
         MapValue(resolveEach(Ok(s, <<>>), typeNode.sub, parentNode, extractEnum,
                              depth + 1, 1),
                  UnionType)
     ELSE IF typeNode.kind = "IntersectionType" THEN
       MapValue(resolveEach(Ok(s, <<>>), typeNode.sub, parentNode, extractEnum,
                            depth + 1, 1),
                IntersectionType)
     ELSE IF typeNode.kind = "AnyKeyword" THEN Ok(s, PrimitiveType("any"))
     ELSE IF typeNode.kind = "TypeLiteral" THEN Ok(s, PrimitiveType("any"))
     ELSE IF typeNode.kind = "ObjectKeyword" THEN Ok(s, PrimitiveType("object"))
     ELSE IF typeNode.kind # "TypeReference" THEN
       Fail(s, GenerateMetadataError("Unknown syntax kind: " \o typeNode.kind))
     ELSE IF isIdentifier /\ name = "Date" THEN Ok(s, getDateType(parentNode))
     ELSE IF isIdentifier /\ name = "Buffer" THEN Ok(s, PrimitiveType("buffer"))
     ELSE IF isIdentifier /\ name = "Array" /\ Len(typeNode.sub) = 1 THEN
       MapValue(resolve(s, typeNode.sub[1], Undefined, TRUE, depth + 1), ArrayType)
     ELSE IF isIdentifier /\ name = "Promise" /\ Len(typeNode.sub) = 1 THEN
       resolve(s, typeNode.sub[1], Undefined, TRUE, depth + 1)
     ELSE IF isIdentifier /\ name = "String" THEN Ok(s, PrimitiveType("string"))
     ELSE resolveReference(s, typeNode, extractEnum, depth)

\* a cache that never answers: the variant of existingType that C2 must reject
noExistingType(cache, refName) == Undefined

\* localReferenceTypeCache[refNameWithGenerics]: the optional heap index of the
\* descriptor stored under the name
existingType(cache, refName) ==
  IF refName \in DOMAIN cache THEN Some(cache[refName]) ELSE Undefined

\* the items before the array: the variant of concat that C9 must reject
concatReversed(array, items) == items \o array

\* Array.prototype.concat
concat(array, items) == array \o items

\* the state with the enum descriptor of the named type allocated and cached
cacheEnumType(s, refName, enumType) ==
  Logged([s EXCEPT
            !.heap = Append(@, ReferenceType("refEnum", enumType.refName,
                                             enumType.description, Undefined, Undefined,
                                             Some(enumType.enums))),
            !.cache = (refName :> (Len(s.heap) + 1)) @@ @],
         refName, "enum")

\* the own properties of the model, and then its additional properties
withAdditionalProperties(properties, modelType, depth) ==
  IF Thrown(properties) THEN properties
  ELSE Pushed(<<properties.v>>,
              getModelAdditionalPropertiesType(properties.s, modelType, depth + 1))

\* and then its inherited properties
withInheritedProperties(r, modelType, depth) ==
  IF Thrown(r) THEN r
  ELSE Pushed(r.v, getModelInheritedProperties(Ok(r.s, <<>>), modelType, depth + 1, 1))

\* a descriptor without properties stored when the resolution has thrown: the variant
\* of cacheReferenceType that C24 must reject
cachePartialReferenceType(r, refName, modelType) ==
  LET id == Len(r.s.heap) + 1
      stored == [r.s EXCEPT
                   !.heap = Append(@, ReferenceType("refObject", refName,
                                                    getNodeDescription(modelType),
                                                    IF Thrown(r) THEN Some(<<>>)
                                                    ELSE Some(concat(r.v[3], r.v[1])),
                                                    IF Thrown(r) THEN Undefined ELSE r.v[2],
                                                    Undefined)),
                   !.cache = (refName :> id) @@ @]
  IN IF Thrown(r) THEN [r EXCEPT !.s = stored]
     ELSE Ok(Logged(stored, refName, "resolved"), id)

\* the descriptor assembled of <<properties, additionalProperties,
\* inheritedProperties>>, allocated and cached
cacheReferenceType(r, refName, modelType) ==
  IF Thrown(r) THEN r
  ELSE Ok(Logged([r.s EXCEPT
                    !.heap = Append(@, ReferenceType("refObject", refName,
                                                     getNodeDescription(modelType),
                                                     Some(concat(r.v[3], r.v[1])), r.v[2],
                                                     Undefined)),
                    !.cache = (refName :> (Len(r.s.heap) + 1)) @@ @],
                 refName, "resolved"),
          Len(r.s.heap) + 1)

\* getReferenceType once the name is made: refNameWithGenerics is the result of
\* getTypeName
getNamedReferenceType(s, typeName, genericTypes, depth, refNameWithGenerics) ==
  LET refName == refNameWithGenerics.v
      referenceEnumType == getEnumerateType(s.nodes, typeName)
      marked == [s EXCEPT !.inProgress = Append(@, refName)]
      modelType == getModelTypeDeclaration(typeName, s.nodes)
  IN IF Failed(refNameWithGenerics) THEN Fail(s, refNameWithGenerics.err)
     ELSE IF IsDefined(existingType(s.cache, refName)) THEN
       Ok(Logged(s, refName, "cached"), existingType(s.cache, refName)[1])
     ELSE IF Failed(referenceEnumType) THEN Fail(s, referenceEnumType.err)
     ELSE IF IsDefined(referenceEnumType.v) THEN
       Ok(cacheEnumType(s, refName, referenceEnumType.v[1]), Len(s.heap) + 1)
     ELSE IF \E i \in DOMAIN s.inProgress : s.inProgress[i] = refName THEN
       createCircularDependencyResolver(Logged(s, refName, "placeholder"), refName)
     ELSE IF Failed(modelType) THEN Fail(marked, modelType.err)
     ELSE cacheReferenceType(
            withInheritedProperties(
              withAdditionalProperties(
                getModelProperties(marked, modelType.v, genericTypes, depth + 1),
                modelType.v, depth),
              modelType.v, depth),
            refName, modelType.v)

\* getReferenceType: the heap index of the descriptor of the named type
getReferenceType(s, typeName, genericTypes, depth) ==
  IF depth > MaxCallDepth THEN Fail(s, RangeError)
  ELSE getNamedReferenceType(s, typeName, genericTypes, depth,
                             getTypeName(getEntityNameFullText(typeName), genericTypes))

TypeError(message) == Error("TypeError", message)

\* the properties so far with the property of the resolved type pushed
PushedProperty(properties, name, type, required, validators) ==
  IF Thrown(type) THEN type
  ELSE IF Failed(validators) THEN Fail(type.s, validators.err)
  ELSE Ok(type.s, Append(properties, [Property(name, type.v, required) EXCEPT
                                        !.validators = validators.v]))

\* the map over the property signatures of an interface, from the i-th on; r
\* holds the state and the properties made so far
getInterfaceProperties(r, node, genericTypes, depth, i) ==
  LET signatures == SelectSeq(node.members, LAMBDA member :
                      ~isIgnored(member) /\ member.kind = "PropertySignature")
      propertyDeclaration == signatures[i]
      declared == propertyDeclaration.type[1]
      indexOfType == indexOf(node.typeParameters, getEntityNameSimpleText(declared.typeName))
      substituted == /\ declared.kind = "TypeReference"
                     /\ Len(genericTypes) > 0
                     /\ Len(node.typeParameters) > 0
                     /\ indexOfType >= 0
      \* genericTypes[indexOfType] is undefined beyond the supplied arguments, and
      \* reading aType.parent then throws
      missing == substituted /\ indexOfType + 1 > Len(genericTypes)
      aType == IF substituted THEN genericTypes[indexOfType + 1] ELSE declared
      parent == IF substituted THEN Some(PlainNode("TypeReference"))
                ELSE Some(propertyDeclaration)
  IN IF Thrown(r) THEN r
     ELSE IF i > Len(signatures) THEN r
     ELSE IF ~IsDefined(propertyDeclaration.type) THEN
       Fail(r.s, GenerateMetadataError("No valid type found for property declaration."))
     ELSE IF missing THEN
       Fail(r.s, TypeError("Cannot read property 'parent' of undefined"))
     ELSE getInterfaceProperties(
            PushedProperty(r.v, propertyDeclaration.name,
                           resolve(r.s, aType, parent, TRUE, depth + 1),
                           ~propertyDeclaration.questionToken,
                           getPropertyValidators(propertyDeclaration)),
            node, genericTypes, depth, i + 1)

\* the properties a type alias takes from the references of its target, from
\* the i-th on; r holds the state and the properties taken so far
getAliasProperties(r, references, depth, i) ==
  LET modelType == getModelTypeDeclaration(references[i].typeName, r.s.nodes)
  IN IF Thrown(r) THEN r
     ELSE IF i > Len(references) THEN r
     ELSE IF Failed(modelType) THEN Fail(r.s, modelType.err)
     ELSE getAliasProperties(
            Concatenated(r.v, getModelProperties(r.s, modelType.v, <<>>, depth + 1)),
            references, depth, i + 1)

\* the map over the properties of a class, from the i-th on.  A property without
\* a type annotation gets its type from the type checker, which is outside the
\* model: such a property is taken to have no type node.
getClassProperties(r, properties, depth, i) ==
  LET property == properties[i]
  IN IF Thrown(r) THEN r
     ELSE IF i > Len(properties) THEN r
     ELSE IF ~IsDefined(property.type) THEN
       Fail(r.s, GenerateMetadataError("No valid type found for property declaration."))
     ELSE getClassProperties(
            PushedProperty(r.v, property.name,
                           resolve(r.s, property.type[1], Some(property), TRUE, depth + 1),
                           ~property.questionToken /\ ~IsDefined(property.initializer),
                           getPropertyValidators(property)),
            properties, depth, i + 1)

getModelProperties(s, node, genericTypes, depth) ==
  LET target == node.type[1]
      references ==
        (IF target.kind = "IntersectionType"
         THEN SelectSeq(target.sub, LAMBDA type : type.kind = "TypeReference")
         ELSE <<>>)
        \o (IF target.kind = "TypeReference" THEN <<target>> ELSE <<>>)
      properties == SelectSeq(node.members, LAMBDA member :
                      /\ ~isIgnored(member)
                      /\ member.kind = "PropertyDeclaration"
                      /\ hasPublicModifier(member))
      constructors == SelectSeq(node.members, LAMBDA member : member.kind = "Constructor")
      constructorProperties ==
        IF Len(constructors) = 0 THEN <<>>
        ELSE SelectSeq(constructors[1].parameters, isAccessibleParameter)
  IN IF depth > MaxCallDepth THEN Fail(s, RangeError)
     ELSE IF node.kind = "InterfaceDeclaration" THEN
       getInterfaceProperties(Ok(s, <<>>), node, genericTypes, depth, 1)
     ELSE IF node.kind = "TypeAliasDeclaration" THEN
       getAliasProperties(Ok(s, <<>>), references, depth, 1)
     ELSE IF node.kind = "ClassDeclaration" THEN
       getClassProperties(Ok(s, <<>>), properties \o constructorProperties, depth, 1)
     ELSE Fail(s, Error("Error", "Unimplemented code path"))

\* the type of the values of an index signature whose index type is resolved
getIndexSignatureType(indexType, indexSignatureDeclaration, depth) ==
  IF Thrown(indexType) THEN indexType
  ELSE IF indexType.v.dataType # "string" THEN
    Fail(indexType.s, GenerateMetadataError("Only string indexers are supported."))
  ELSE MapValue(resolve(indexType.s, indexSignatureDeclaration.type[1], Undefined, TRUE,
                        depth + 1),
                Some)

\* the optional type of the values of the index signature of an interface
getModelAdditionalPropertiesType(s, node, depth) ==
  LET signatures == SelectSeq(node.members, LAMBDA member : member.kind = "IndexSignature")
      indexSignatureDeclaration == signatures[1]
  IN IF node.kind # "InterfaceDeclaration" THEN Ok(s, Undefined)
     ELSE IF Len(signatures) = 0 THEN Ok(s, Undefined)
     ELSE getIndexSignatureType(
            resolve(s, indexSignatureDeclaration.parameters[1].type[1], Undefined, TRUE,
                    depth + 1),
            indexSignatureDeclaration, depth)

\* the properties so far with the properties of the resolved descriptor, if it
\* has any, pushed
PushedProperties(properties, referenceType) ==
  IF Thrown(referenceType) THEN referenceType
  ELSE IF IsDefined(referenceType.s.heap[referenceType.v].properties) THEN
    Ok(referenceType.s, properties \o referenceType.s.heap[referenceType.v].properties[1])
  ELSE Ok(referenceType.s, properties)

\* the properties of the types of the heritage clauses, from the i-th type on; r
\* holds the state and the properties pushed so far
getModelInheritedProperties(r, modelTypeDeclaration, depth, i) ==
  IF Thrown(r) THEN r
  ELSE IF modelTypeDeclaration.kind \in {"TypeAliasDeclaration", "EnumDeclaration"} THEN r
  ELSE IF i > Len(modelTypeDeclaration.heritage) THEN r
  ELSE getModelInheritedProperties(
         PushedProperties(r.v, getReferenceType(r.s, <<modelTypeDeclaration.heritage[i]>>,
                                                <<>>, depth + 1)),
         modelTypeDeclaration, depth, i + 1)

-----------------------------------------------------------------------------
(* MetadataGenerator.Generate: once the controllers are built, every        *)
(* circular dependency resolver is called with the reference type map.     *)

\* referenceTypes[refName]: the optional heap index registered under the name
lookupReferenceType(refMap, refName) ==
  LET at == SelectSeqIdx(refMap, LAMBDA e : e.name = refName, 1)
  IN IF Len(at) = 0 THEN Undefined ELSE Some(refMap[at[1]].id)

\* a callback that patches nothing: the variant of circularDependencyResolver that
\* C14 must reject
keepPlaceholder(h, refMap, callback) == h

\* the callback registered by createCircularDependencyResolver, applied to the heap
circularDependencyResolver(h, refMap, callback) ==
  LET realReferenceType == lookupReferenceType(refMap, callback.refName)
      real == h[realReferenceType[1]]
  IN IF ~IsDefined(realReferenceType) THEN h
     ELSE [h EXCEPT ![callback.referenceType] =
             [@ EXCEPT !.description = real.description,
                       !.properties = real.properties,
                       !.dataType = real.dataType]]

RECURSIVE runCircularDependencyResolvers(_, _, _, _)
runCircularDependencyResolvers(h, refMap, resolvers, i) ==
  IF i > Len(resolvers) THEN h
  ELSE runCircularDependencyResolvers(
         circularDependencyResolver(h, refMap, resolvers[i]), refMap, resolvers, i + 1)

-----------------------------------------------------------------------------
(* RouteGenerator: materialization *)

\* TsoaRoute.PropertySchema without validators; every field is optional
PropertySchema(dataType, ref, array, enums, subSchemas, required) ==
  [dataType |-> dataType, ref |-> ref, array |-> array, enums |-> enums,
   subSchemas |-> subSchemas, required |-> required, validators |-> Undefined]

\* a value that is a boolean or a schema object
JsBoolean(b) == [type |-> "boolean", boolean |-> b, object |-> Undefined]
JsObject(o) == [type |-> "object", boolean |-> TRUE, object |-> Some(o)]

\* the values of SwaggerConfig.noImplicitAdditionalProperties
NoImplicitAdditionalProperties ==
  {"undefined", "true", "false", "silently-remove-extras", "throw-on-extras"}

\* only true is truthy: the variant of Truthy that C10 must reject
OnlyTrueIsTruthy(noImplicitAdditionalProperties) ==
  noImplicitAdditionalProperties = "true"

\* whether the value is truthy: undefined and false are not, true and the
\* non-empty strings are
Truthy(noImplicitAdditionalProperties) ==
  noImplicitAdditionalProperties \notin {"undefined", "false"}

RECURSIVE buildProperty(_, _)
RECURSIVE buildProperties(_, _, _)
buildProperties(h, types, i) ==
  IF i > Len(types) THEN <<>>
  ELSE <<buildProperty(h, types[i])>> \o buildProperties(h, types, i + 1)

\* a schema of the dataType alone: the variant of buildProperty that C18 must reject
buildDataTypeOnly(h, type) ==
  PropertySchema(Some(type.dataType), Undefined, Undefined, Undefined, Undefined, Undefined)

buildProperty(h, type) ==
  LET isReference == type.dataType = "ref"
      elementType == type.sub[1]
      array ==
        IF type.dataType # "array" THEN Undefined
        ELSE IF elementType.dataType = "ref" THEN
          Some(PropertySchema(Undefined, Some(h[elementType.ref].refName), Undefined,
                              Undefined, Undefined, Undefined))
        ELSE Some(PropertySchema(Some(elementType.dataType), Undefined, Undefined,
                                 elementType.enums, Undefined, Undefined))
  IN PropertySchema(
       IF isReference THEN Undefined ELSE Some(type.dataType),
       IF isReference THEN Some(h[type.ref].refName) ELSE Undefined,
       array,
       IF type.dataType = "enum" THEN type.enums ELSE Undefined,
       IF type.dataType \in {"union", "intersection"}
       THEN Some(buildProperties(h, type.sub, 1)) ELSE Undefined,
       Undefined)

\* a property schema that always carries required and validators: the variant of
\* buildPropertySchema that C17 must reject
buildPropertySchemaInFull(h, source) ==
  [buildProperty(h, source.type) EXCEPT
     !.required = Some(source.required), !.validators = Some(source.validators)]

buildPropertySchema(h, source) ==
  [buildProperty(h, source.type) EXCEPT
     !.required = IF source.required THEN Some(TRUE) ELSE Undefined,
     !.validators = IF Len(Keys(source.validators)) > 0 THEN Some(source.validators)
                    ELSE Undefined]

\* a Tsoa.Parameter; subParameters is defined for an aggregate parameter
TsoaParameter(name, in, type, required, validators, subParameters) ==
  [name |-> name, in |-> in, type |-> type, required |-> required,
   validators |-> validators, subParameters |-> subParameters]

isAggregateParameter(parameter) == IsDefined(parameter.subParameters)

isAggregateParameterSchema(parameter) == IsDefined(parameter.subParameters)

RECURSIVE buildParameterSchema(_, _)
RECURSIVE buildParameterSchemas(_, _, _)
\* source.subParameters.map(this.buildParameterSchema), from the i-th on
buildParameterSchemas(h, sources, i) ==
  IF i > Len(sources) THEN <<>>
  ELSE <<buildParameterSchema(h, sources[i])>> \o buildParameterSchemas(h, sources, i + 1)

\* a TsoaRoute.ParameterSchema: the fields of the property schema of the type,
\* then in, name and required, the optional subParameters and validators
buildParameterSchema(h, source) ==
  LET property == buildProperty(h, source.type)
  IN [dataType |-> property.dataType, ref |-> property.ref, array |-> property.array,
      enums |-> property.enums, subSchemas |-> property.subSchemas,
      in |-> source.in,
      name |-> source.name,
      required |-> IF source.required THEN Some(TRUE) ELSE Undefined,
      subParameters |-> IF isAggregateParameter(source)
                        THEN Some(buildParameterSchemas(h, source.subParameters[1], 1))
                        ELSE Undefined,
      validators |-> IF Len(Keys(source.validators)) > 0 THEN Some(source.validators)
                     ELSE Undefined]

ReferenceError(message) == Error("ReferenceError", message)

RECURSIVE flattenSubParameters(_, _, _)
\* schema.subParameters.forEach(subSchema => flattened[subSchema.name] = subSchema)
flattenSubParameters(flattened, subParameters, i) ==
  IF i > Len(subParameters) THEN flattened
  ELSE flattenSubParameters(SetKey(flattened, subParameters[i].name, subParameters[i]),
                            subParameters, i + 1)

RECURSIVE flattenEntries(_, _, _)
\* the forEach of flattenAggregates over Object.entries(unflattened), from the
\* i-th entry on
flattenEntries(unflattened, flattened, i) ==
  IF i > Len(unflattened) THEN Return(flattened)
  ELSE IF IsDefined(Get(flattened, unflattened[i].key)) THEN
    Throw(ReferenceError("Duplicate parameter name '" \o unflattened[i].key \o "'"))
  ELSE IF isAggregateParameterSchema(unflattened[i].value) THEN
    flattenEntries(unflattened,
                   flattenSubParameters(flattened, unflattened[i].value.subParameters[1], 1),
                   i + 1)
  ELSE flattenEntries(unflattened,
                      SetKey(flattened, unflattened[i].key, unflattened[i].value), i + 1)

\* the handlebars helper flattenAggregates
flattenAggregates(unflattened) == flattenEntries(unflattened, <<>>, 1)

RECURSIVE buildModelProperties(_, _, _, _)
\* properties[property.name] = buildPropertySchema(property), from the i-th on
buildModelProperties(h, sourceProperties, properties, i) ==
  IF i > Len(sourceProperties) THEN properties
  ELSE buildModelProperties(h, sourceProperties,
         SetKey(properties, sourceProperties[i].name,
                buildPropertySchema(h, sourceProperties[i])),
         i + 1)

\* the model schema buildModels makes of one reference type
buildModel(h, referenceType, noImplicitAdditionalProperties) ==
  LET properties == IF IsDefined(referenceType.properties)
                    THEN buildModelProperties(h, referenceType.properties[1], <<>>, 1)
                    ELSE <<>>
  IN [enums |-> referenceType.enums,
      properties |-> IF Len(Keys(properties)) = 0 THEN Undefined ELSE Some(properties),
      additionalProperties |->
        IF IsDefined(referenceType.additionalProperties)
        THEN JsObject(buildProperty(h, referenceType.additionalProperties[1]))
        ELSE IF Truthy(noImplicitAdditionalProperties) THEN JsBoolean(FALSE)
        ELSE JsBoolean(TRUE)]

RECURSIVE buildModelsFrom(_, _, _, _, _)
buildModelsFrom(h, refMap, noImplicitAdditionalProperties, models, i) ==
  IF i > Len(refMap) THEN models
  ELSE buildModelsFrom(h, refMap, noImplicitAdditionalProperties,
         SetKey(models, refMap[i].name,
                buildModel(h, h[refMap[i].id], noImplicitAdditionalProperties)),
         i + 1)

\* RouteGenerator.buildModels over metadata.referenceTypeMap
buildModels(h, refMap, noImplicitAdditionalProperties) ==
  buildModelsFrom(h, refMap, noImplicitAdditionalProperties, <<>>, 1)

\* JSON.stringify of an array of strings
StringifyStrings(strings) ==
  "[" \o Join([i \in DOMAIN strings |-> "\"" \o strings[i] \o "\""], ",") \o "]"

RECURSIVE StringifySchema(_)
\* JSON.stringify of a property schema: the defined fields, in insertion order
StringifySchema(schema) ==
  LET fields ==
        (IF IsDefined(schema.dataType)
         THEN <<"\"dataType\":\"" \o schema.dataType[1] \o "\"">> ELSE <<>>)
        \o (IF IsDefined(schema.ref)
            THEN <<"\"ref\":\"" \o schema.ref[1] \o "\"">> ELSE <<>>)
        \o (IF IsDefined(schema.array)
            THEN <<"\"array\":" \o StringifySchema(schema.array[1])>> ELSE <<>>)
        \o (IF IsDefined(schema.enums)
            THEN <<"\"enums\":" \o StringifyStrings(schema.enums[1])>> ELSE <<>>)
        \o (IF IsDefined(schema.subSchemas)
            THEN <<"\"subSchemas\":["
                   \o Join([i \in DOMAIN schema.subSchemas[1] |->
                              StringifySchema(schema.subSchemas[1][i])], ",")
                   \o "]">>
            ELSE <<>>)
        \o (IF IsDefined(schema.required) THEN <<"\"required\":true">> ELSE <<>>)
  IN "{" \o Join(fields, ",") \o "}"

\* JSON.stringify of a boolean or a schema
Stringify(value) ==
  IF value.type = "boolean" THEN (IF value.boolean THEN "true" ELSE "false")
  ELSE StringifySchema(value.object[1])

\* the handlebars helper; additionalProperties is optional
additionalPropsHelper(noImplicitAdditionalProperties, additionalProperties) ==
  IF IsDefined(additionalProperties) /\ additionalProperties[1].boolean THEN
    Stringify(additionalProperties[1])
  ELSE IF noImplicitAdditionalProperties = "silently-remove-extras" THEN
    Stringify(JsBoolean(FALSE))
  ELSE IF noImplicitAdditionalProperties = "throw-on-extras" THEN
    Stringify(JsBoolean(FALSE))
  ELSE IF noImplicitAdditionalProperties = "undefined" THEN Stringify(JsBoolean(TRUE))
  ELSE IF noImplicitAdditionalProperties = "true" THEN Stringify(JsBoolean(FALSE))
  ELSE Stringify(JsBoolean(TRUE))

-----------------------------------------------------------------------------
(* The declaration sets and entry points of the resolver specification *)

string == StringKeyword
number == NumberKeyword

\* a declaration named X of each shape, Y being the other name of the program
Shapes == {"leaf", "self", "field", "extends", "extendsField", "alias",
           "intersection", "array", "class"}

Shape(shape, X, Y) ==
  CASE shape = "leaf" ->
         InterfaceDeclaration(X, <<>>, <<>>, <<PropertySignature("x", number, FALSE, <<>>)>>)
    [] shape = "self" ->
         InterfaceDeclaration(X, <<>>, <<>>,
           <<PropertySignature("child", TypeReference(X), FALSE, <<>>)>>)
    [] shape = "field" ->
         InterfaceDeclaration(X, <<>>, <<>>,
           <<PropertySignature("other", TypeReference(Y), FALSE, <<>>)>>)
    [] shape = "extends" ->
         InterfaceDeclaration(X, <<>>, <<Y>>,
           <<PropertySignature("x", string, TRUE, <<>>)>>)
    [] shape = "extendsField" ->
         InterfaceDeclaration(X, <<>>, <<Y>>,
           <<PropertySignature("other", TypeReference(Y), FALSE, <<>>)>>)
    [] shape = "alias" -> TypeAliasDeclaration(X, TypeReference(Y))
    [] shape = "intersection" ->
         TypeAliasDeclaration(X, IntersectionTypeNode(<<TypeReference(Y), TypeReference("C")>>))
    [] shape = "array" ->
         InterfaceDeclaration(X, <<>>, <<>>,
           <<PropertySignature("others", ArrayTypeNode(TypeReference(Y)), FALSE, <<>>),
             PropertySignature("child", TypeReference(X), TRUE, <<>>)>>)
    [] shape = "class" ->
         ClassDeclaration(X, <<Y>>,
           <<PropertyDeclaration("x", number, FALSE, <<>>, Undefined),
             Constructor(<<Parameter("other", TypeReference(Y), <<"PublicKeyword">>, <<>>),
                           Parameter("hidden", number, <<>>, <<>>)>>)>>)

GraphProgram(shapeA, shapeB) ==
  <<Shape(shapeA, "A", "B"), Shape(shapeB, "B", "A"),
    InterfaceDeclaration("C", <<>>, <<>>, <<PropertySignature("c", string, FALSE, <<>>)>>)>>

GraphPrograms == {GraphProgram(a, b) : a \in Shapes, b \in Shapes}

GraphEntries == {TypeReference("A"), TypeReference("B")}

User == InterfaceDeclaration("User", <<>>, <<>>,
          <<PropertySignature("name", string, FALSE, <<>>)>>)

\* generic declarations and the references that instantiate them
GenericsProgram ==
  <<User,
    InterfaceDeclaration("UserArray", <<>>, <<>>,
      <<PropertySignature("length", number, FALSE, <<>>)>>),
    InterfaceDeclaration("Page", <<"T">>, <<>>,
      <<PropertySignature("item", TypeReference("T"), FALSE, <<>>),
        PropertySignature("total", number, FALSE, <<>>)>>),
    InterfaceDeclaration("Pair", <<"T", "U">>, <<>>,
      <<PropertySignature("first", TypeReference("T"), FALSE, <<>>),
        PropertySignature("second", TypeReference("U"), TRUE, <<>>)>>),
    InterfaceDeclaration("Box", <<"T">>, <<>>,
      <<PropertySignature("size", number, FALSE, <<>>)>>)>>

GenericsEntries ==
  {TypeReference("User"),
   TypeReference("Page"),
   GenericReference("Page", <<TypeReference("User")>>),
   GenericReference("Page", <<ArrayTypeNode(TypeReference("User"))>>),
   GenericReference("Page", <<GenericReference("Array", <<TypeReference("User")>>)>>),
   GenericReference("Page", <<TypeReference("UserArray")>>),
   GenericReference("Page", <<number>>),
   GenericReference("Page", <<TypeReference("User"), number>>),
   GenericReference("User", <<string>>),
   GenericReference("Pair", <<TypeReference("User")>>),
   GenericReference("Pair", <<TypeReference("User"), TypeReference("User")>>),
   TypeReference("Box"),
   GenericReference("Box", <<number, string>>)}

\* inheritance, dictionaries and declarations that cannot be located
InheritanceProgram ==
  <<InterfaceDeclaration("Base", <<>>, <<>>,
      <<PropertySignature("a", string, FALSE, <<>>),
        PropertySignature("b", string, FALSE, <<>>)>>),
    InterfaceDeclaration("Derived", <<>>, <<"Base">>,
      <<PropertySignature("b", number, TRUE, <<>>),
        PropertySignature("c", number, FALSE, <<>>)>>),
    TypeAliasDeclaration("DerivedAlias", TypeReference("Derived")),
    InterfaceDeclaration("Dictionary", <<>>, <<>>,
      <<PropertySignature("id", string, FALSE, <<>>),
        IndexSignature(string, TypeReference("Base"))>>),
    InterfaceDeclaration("Indexed", <<>>, <<>>, <<IndexSignature(number, string)>>),
    Declaration("InterfaceDeclaration", "Hidden", FALSE, "src/models.ts", <<>>,
                <<>>, <<>>, <<>>, <<>>, <<>>),
    InterfaceDeclaration("Untyped", <<>>, <<>>,
      <<PropertySignature("first", TypeReference("Base"), FALSE, <<>>),
        UntypedPropertySignature("second")>>)>>

InheritanceEntries ==
  {TypeReference("Base"), TypeReference("Derived"), TypeReference("DerivedAlias"),
   TypeReference("Dictionary"), TypeReference("Indexed"), TypeReference("Hidden"),
   TypeReference("Untyped"), ArrayTypeNode(TypeReference("Derived")), TupleType}

\* enumerations, literal unions and namespaces
EnumProgram ==
  <<EnumDeclaration("Color",
      <<EnumMember("Red", Undefined),
        EnumMember("Green", Some(Initializer("\"G\"", "")))>>),
    TypeAliasDeclaration("Letter",
      UnionTypeNode(<<LiteralTypeNode("StringLiteral", "a"),
                      LiteralTypeNode("StringLiteral", "b")>>)),
    TypeAliasDeclaration("Tagged", UnionTypeNode(<<TypeReference("Holder"), string>>)),
    InterfaceDeclaration("Holder", <<>>, <<>>,
      <<PropertySignature("color", TypeReference("Color"), FALSE, <<>>)>>),
    EnumDeclaration("E", <<EnumMember("X", Undefined)>>),
    ModuleDeclaration("NS", TRUE,
      <<EnumDeclaration("E", <<EnumMember("Y", Undefined)>>),
        InterfaceDeclaration("Inner", <<>>, <<>>,
          <<PropertySignature("v", string, FALSE, <<>>)>>)>>)>>

EnumEntries ==
  {TypeReference("Color"), ArrayTypeNode(TypeReference("Color")),
   TypeReference("Letter"), TypeReference("Tagged"), TypeReference("Holder"),
   QualifiedReference(<<"NS", "E">>), QualifiedReference(<<"NS", "Inner">>),
   QualifiedReference(<<"Missing", "Inner">>),
   UnionTypeNode(<<TypeReference("Color"), TypeReference("Holder")>>)}

\* a base with a field of a type derived from it, reached only as a base
SharedBaseProgram ==
  <<InterfaceDeclaration("B", <<>>, <<>>,
      <<PropertySignature("a", TypeReference("A"), FALSE, <<>>)>>),
    InterfaceDeclaration("A", <<>>, <<"B">>, <<PropertySignature("x", string, FALSE, <<>>)>>),
    InterfaceDeclaration("C", <<>>, <<"B">>, <<PropertySignature("c", string, FALSE, <<>>)>>)>>

SharedBaseEntries == {TypeReference("C")}

Programs ==
  GraphPrograms \cup {GenericsProgram, InheritanceProgram, EnumProgram, SharedBaseProgram}

\* the type nodes resolve() is called with from outside, per declaration set
EntryNodes(currentNodes) ==
  IF currentNodes = GenericsProgram THEN GenericsEntries
  ELSE IF currentNodes = InheritanceProgram THEN InheritanceEntries
  ELSE IF currentNodes = EnumProgram THEN EnumEntries
  ELSE IF currentNodes = SharedBaseProgram THEN SharedBaseEntries
  ELSE GraphEntries

\* the extractEnum arguments resolve() is constructed with from outside: the
\* default, and false where the declaration set has enums
ExtractEnums(currentNodes) ==
  IF currentNodes = EnumProgram THEN BOOLEAN ELSE {TRUE}

-----------------------------------------------------------------------------
(* The resolver specification *)

EmptyCache == [name \in {} |-> 0]

InitResolver ==
  /\ nodes \in Programs
  /\ localReferenceTypeCache = EmptyCache
  /\ inProgressTypes = <<>>
  /\ heap = <<>>
  /\ referenceTypeMap = <<>>
  /\ circularDependencyResolvers = <<>>
  /\ status = "running"
  /\ lastOp = "new"
  /\ lastCall = <<>>
  /\ nres = 0
  /\ arg = <<>>
  /\ ret = <<>>

\* the state the resolver works on, of the current state
Current ==
  [nodes |-> nodes, cache |-> localReferenceTypeCache, inProgress |-> inProgressTypes,
   heap |-> heap, refMap |-> referenceTypeMap, resolvers |-> circularDependencyResolvers,
   err |-> NoError, log |-> <<>>]

\* new TypeResolver(typeNode, current, undefined, extractEnum).resolve()
Resolve(typeNode, extractEnum) ==
  /\ status = "running"
  /\ nres < MaxResolves
  /\ LET r == resolve(Current, typeNode, Undefined, extractEnum, 1)
     IN /\ localReferenceTypeCache' = r.s.cache
        /\ inProgressTypes' = r.s.inProgress
        /\ heap' = r.s.heap
        /\ referenceTypeMap' = r.s.refMap
        /\ circularDependencyResolvers' = r.s.resolvers
        /\ status' = IF r.s.err = NoError THEN "running"
                     ELSE IF r.s.err = Diverges THEN "hung"
                     ELSE "failed"
        /\ lastCall' = [typeNode |-> typeNode, extractEnum |-> extractEnum,
                        after |-> lastOp, err |-> r.s.err, type |-> r.v,
                        log |-> r.s.log]
  /\ lastOp' = "resolve"
  /\ nres' = nres + 1
  /\ UNCHANGED <<nodes, arg, ret>>

\* MetadataGenerator.Generate, after the controllers were built
Generate ==
  /\ status = "running"
  /\ heap' = runCircularDependencyResolvers(heap, referenceTypeMap,
                                            circularDependencyResolvers, 1)
  /\ status' = "finished"
  /\ lastOp' = "generate"
  /\ UNCHANGED <<nodes, localReferenceTypeCache, inProgressTypes, referenceTypeMap,
                 circularDependencyResolvers, lastCall, nres, arg, ret>>

\* a clearCache that leaves inProgressTypes alone: the variant that C3 must reject
ClearCacheKeepingInProgress ==
  /\ status # "hung"
  /\ lastOp # "clearCache"
  /\ localReferenceTypeCache' = EmptyCache
  /\ lastOp' = "clearCache"
  /\ UNCHANGED <<nodes, inProgressTypes, heap, referenceTypeMap,
                 circularDependencyResolvers, status, lastCall, nres, arg, ret>>

\* TypeResolver.clearCache
ClearCache ==
  /\ status # "hung"
  /\ lastOp # "clearCache"
  /\ localReferenceTypeCache' = EmptyCache
  /\ inProgressTypes' = <<>>
  /\ lastOp' = "clearCache"
  /\ UNCHANGED <<nodes, heap, referenceTypeMap, circularDependencyResolvers, status,
                 lastCall, nres, arg, ret>>

\* new MetadataGenerator(...): the next run, over the same declarations
NewMetadataGenerator ==
  /\ status \in {"failed", "finished"}
  /\ nres < MaxResolves
  /\ referenceTypeMap' = <<>>
  /\ circularDependencyResolvers' = <<>>
  /\ status' = "running"
  /\ lastOp' = "new"
  /\ arg' = <<>>
  /\ ret' = <<>>
  /\ UNCHANGED <<nodes, localReferenceTypeCache, inProgressTypes, heap, lastCall, nres>>

\* new RouteGenerator(metadata, options, minimalSwaggerConfig).buildModels(), on
\* the metadata Generate returned
BuildModels(noImplicitAdditionalProperties) ==
  /\ status = "finished"
  /\ lastOp = "generate"
  /\ arg' = noImplicitAdditionalProperties
  /\ ret' = buildModels(heap, referenceTypeMap, noImplicitAdditionalProperties)
  /\ lastOp' = "buildModels"
  /\ UNCHANGED <<nodes, localReferenceTypeCache, inProgressTypes, heap, referenceTypeMap,
                 circularDependencyResolvers, status, lastCall, nres>>

Next ==
  \/ \E typeNode \in EntryNodes(nodes), extractEnum \in ExtractEnums(nodes) :
       Resolve(typeNode, extractEnum)
  \/ Generate
  \/ \E noImplicitAdditionalProperties \in NoImplicitAdditionalProperties :
       BuildModels(noImplicitAdditionalProperties)
  \/ ClearCache
  \/ NewMetadataGenerator

Spec == InitResolver /\ [][Next]_vars

-----------------------------------------------------------------------------
(* The locator specification: getModelTypeDeclaration over the statements   *)
(* of one scope                                                            *)

MaxCandidates == 3
MaxTags == 2
MaxParameters == 3
MaxSubParameters == 2
MaxLiterals == 3

\* the files of the TypeScript standard library, as the compiler names them on
\* Windows and elsewhere
LibraryFiles ==
  {"C:\\Project\\Node_Modules\\TypeScript\\lib\\lib.d.ts",
   "node_modules/typescript/lib/lib.dom.d.ts"}

tsoaModel == <<JSDoc(Undefined, <<JSDocTag("tsoaModel", Undefined)>>)>>

Candidate(kind, name, exported, fileName, jsDoc) ==
  Declaration(kind, name, exported, fileName, jsDoc, <<>>, <<>>, <<>>, <<>>, <<>>)

Candidates ==
  {Candidate("InterfaceDeclaration", "T", TRUE, "src/a.ts", <<>>),
   Candidate("ClassDeclaration", "T", TRUE, "src/b.ts", <<>>),
   Candidate("TypeAliasDeclaration", "T", TRUE, "src/c.ts", tsoaModel),
   Candidate("InterfaceDeclaration", "T", TRUE, "src/d.ts", tsoaModel),
   Candidate("InterfaceDeclaration", "T", FALSE, "src/e.ts", <<>>),
   Candidate("InterfaceDeclaration", "U", TRUE, "src/f.ts", <<>>),
   Candidate("FunctionDeclaration", "T", TRUE, "src/g.ts", <<>>),
   Candidate("EnumDeclaration", "T", TRUE,
             "C:\\Project\\Node_Modules\\TypeScript\\lib\\lib.d.ts", <<>>),
   Candidate("InterfaceDeclaration", "T", TRUE,
             "node_modules/typescript/lib/lib.dom.d.ts", tsoaModel)}

\* the statements of the scope: up to MaxCandidates declarations in any order
CandidateLists ==
  UNION {[1..n -> Candidates] : n \in 0..MaxCandidates}

InitLocator ==
  /\ nodes \in CandidateLists
  /\ localReferenceTypeCache = EmptyCache
  /\ inProgressTypes = <<>>
  /\ heap = <<>>
  /\ referenceTypeMap = <<>>
  /\ circularDependencyResolvers = <<>>
  /\ status = "running"
  /\ lastOp = "new"
  /\ lastCall = <<>>
  /\ nres = 0
  /\ arg = <<>>
  /\ ret = <<>>

\* getModelTypeDeclaration(type) of a resolver over the statements
GetModelTypeDeclaration(type) ==
  /\ lastOp = "new"
  /\ arg' = type
  /\ ret' = getModelTypeDeclaration(type.typeName, nodes)
  /\ lastOp' = "getModelTypeDeclaration"
  /\ UNCHANGED <<nodes, localReferenceTypeCache, inProgressTypes, heap, referenceTypeMap,
                 circularDependencyResolvers, status, lastCall, nres>>

NextLocator ==
  \E type \in {TypeReference("T")} : GetModelTypeDeclaration(type)

SpecLocator == InitLocator /\ [][NextLocator]_vars

-----------------------------------------------------------------------------
(* The validator specification: getPropertyValidators of a property,        *)
(* getParameterValidators and getJSDocTagNames of a parameter, over the     *)
(* tags of one documentation block                                         *)

PropertyTagNames ==
  {"minimum", "maximum", "minItems", "maxItems", "minLength", "maxLength",
   "uniqueItems", "pattern", "minDate", "isInt"}

PropertyTagComments ==
  {Undefined, Some("5"), Some("1.5"), Some("abc"), Some("5 at least five"),
   Some("2017-05-14")}

PropertyTags ==
  {JSDocTag(tagName, comment) : tagName \in PropertyTagNames, comment \in PropertyTagComments}

ParameterNames == {"id", "idx"}

ParameterTagNames == {"minimum", "maxLength", "isInt", "format"}

ParameterTagComments ==
  {Undefined, Some("id"), Some("idx"), Some("id 5"), Some("idx 7"), Some("id abc"),
   Some("id 5 at least five"), Some("other 3")}

ParameterTags ==
  {JSDocTag(tagName, comment) : tagName \in ParameterTagNames, comment \in ParameterTagComments}

\* a property signature with the documentation block
DocumentedProperty(tags) == PropertySignature("p", number, FALSE, <<JSDoc(Undefined, tags)>>)

\* a parameter of a method with the documentation block
DocumentedParameter(name, tags) == Parameter(name, number, <<>>, <<JSDoc(Undefined, tags)>>)

InitValidators ==
  /\ \E n \in 0..MaxTags :
       \/ \E tags \in [1..n -> PropertyTags] : arg = DocumentedProperty(tags)
       \/ \E name \in ParameterNames, tags \in [1..n -> ParameterTags] :
            arg = DocumentedParameter(name, tags)
  /\ nodes = <<>>
  /\ localReferenceTypeCache = EmptyCache
  /\ inProgressTypes = <<>>
  /\ heap = <<>>
  /\ referenceTypeMap = <<>>
  /\ circularDependencyResolvers = <<>>
  /\ status = "running"
  /\ lastOp = "new"
  /\ lastCall = <<>>
  /\ nres = 0
  /\ ret = <<>>

GetPropertyValidators ==
  /\ lastOp = "new"
  /\ arg.kind = "PropertySignature"
  /\ ret' = getPropertyValidators(arg)
  /\ lastOp' = "getPropertyValidators"
  /\ UNCHANGED <<nodes, localReferenceTypeCache, inProgressTypes, heap, referenceTypeMap,
                 circularDependencyResolvers, status, lastCall, nres, arg>>

GetParameterValidators ==
  /\ lastOp = "new"
  /\ arg.kind = "Parameter"
  /\ ret' = getParameterValidators(arg, arg.name)
  /\ lastOp' = "getParameterValidators"
  /\ UNCHANGED <<nodes, localReferenceTypeCache, inProgressTypes, heap, referenceTypeMap,
                 circularDependencyResolvers, status, lastCall, nres, arg>>

GetJSDocTagNames ==
  /\ lastOp = "new"
  /\ ret' = Return(getJSDocTagNames(arg))
  /\ lastOp' = "getJSDocTagNames"
  /\ UNCHANGED <<nodes, localReferenceTypeCache, inProgressTypes, heap, referenceTypeMap,
                 circularDependencyResolvers, status, lastCall, nres, arg>>

NextValidators == GetPropertyValidators \/ GetParameterValidators \/ GetJSDocTagNames

SpecValidators == InitValidators /\ [][NextValidators]_vars

-----------------------------------------------------------------------------
(* The primitive specification: resolve of a keyword or of Date, without a  *)
(* parent node or as the type of a documented property                      *)

PrimitiveTypeNodes ==
  {Keyword("StringKeyword"), Keyword("BooleanKeyword"), Keyword("VoidKeyword"),
   Keyword("NumberKeyword"), TypeReference("Date")}

RefinementTagNames == {"isInt", "isLong", "isFloat", "isDouble", "isDate", "isDateTime", "minimum"}

RefinementTags ==
  {JSDocTag(tagName, comment) : tagName \in RefinementTagNames, comment \in {Undefined, Some("5")}}

InitPrimitives ==
  /\ \E typeNode \in PrimitiveTypeNodes :
       \/ arg = [typeNode |-> typeNode, parentNode |-> Undefined]
       \/ \E n \in 0..MaxTags : \E tags \in [1..n -> RefinementTags] :
            arg = [typeNode |-> typeNode, parentNode |-> Some(DocumentedProperty(tags))]
  /\ nodes = <<>>
  /\ localReferenceTypeCache = EmptyCache
  /\ inProgressTypes = <<>>
  /\ heap = <<>>
  /\ referenceTypeMap = <<>>
  /\ circularDependencyResolvers = <<>>
  /\ status = "running"
  /\ lastOp = "new"
  /\ lastCall = <<>>
  /\ nres = 0
  /\ ret = <<>>

\* new TypeResolver(typeNode, current, parentNode).resolve()
ResolvePrimitive ==
  /\ lastOp = "new"
  /\ LET r == resolve(Current, arg.typeNode, arg.parentNode, FALSE, 1)
     IN /\ localReferenceTypeCache' = r.s.cache
        /\ inProgressTypes' = r.s.inProgress
        /\ heap' = r.s.heap
        /\ referenceTypeMap' = r.s.refMap
        /\ circularDependencyResolvers' = r.s.resolvers
        /\ ret' = [err |-> r.s.err, v |-> r.v]
  /\ lastOp' = "resolvePrimitive"
  /\ UNCHANGED <<nodes, status, lastCall, nres, arg>>

NextPrimitives == ResolvePrimitive

SpecPrimitives == InitPrimitives /\ [][NextPrimitives]_vars

-----------------------------------------------------------------------------
(* The literal specification: a union of literal types is resolved as it is *)
(* written and through a type alias of it                                   *)

Literals ==
  {LiteralTypeNode("StringLiteral", "a"), LiteralTypeNode("StringLiteral", "bc"),
   LiteralTypeNode("NumericLiteral", "1"), LiteralTypeNode("NumericLiteral", "25"),
   LiteralTypeNode("TrueKeyword", ""), LiteralTypeNode("FalseKeyword", "")}

\* the declaration type Choice = <the union>
ChoiceAlias(union) == TypeAliasDeclaration("Choice", union)

InitLiterals ==
  /\ \E n \in 2..MaxLiterals : \E literals \in [1..n -> Literals] :
       /\ arg = UnionTypeNode(literals)
       /\ nodes = <<ChoiceAlias(UnionTypeNode(literals))>>
  /\ localReferenceTypeCache = EmptyCache
  /\ inProgressTypes = <<>>
  /\ heap = <<>>
  /\ referenceTypeMap = <<>>
  /\ circularDependencyResolvers = <<>>
  /\ status = "running"
  /\ lastOp = "new"
  /\ lastCall = <<>>
  /\ nres = 0
  /\ ret = <<>>

\* new TypeResolver(typeNode, current).resolve(), of a type node not resolved yet; ret
\* holds the type nodes resolved so far with their results
ResolveLiteral(typeNode) ==
  /\ \A i \in DOMAIN ret : ret[i].typeNode # typeNode
  /\ LET r == resolve(Current, typeNode, Undefined, TRUE, 1)
     IN /\ localReferenceTypeCache' = r.s.cache
        /\ inProgressTypes' = r.s.inProgress
        /\ heap' = r.s.heap
        /\ referenceTypeMap' = r.s.refMap
        /\ circularDependencyResolvers' = r.s.resolvers
        /\ ret' = Append(ret, [typeNode |-> typeNode, err |-> r.s.err, v |-> r.v])
  /\ lastOp' = "resolveLiteral"
  /\ UNCHANGED <<nodes, status, lastCall, nres, arg>>

NextLiterals == \E typeNode \in {arg, TypeReference("Choice")} : ResolveLiteral(typeNode)

SpecLiterals == InitLiterals /\ [][NextLiterals]_vars

-----------------------------------------------------------------------------
(* The parameter specification: the parameters of one method are            *)
(* materialized (buildParameterSchema, buildPropertySchema) and the          *)
(* parameter schemas are flattened (flattenAggregates)                       *)

\* the descriptors the types of the parameters refer to: an object, an enum and
\* a placeholder of an object
SchemaHeap ==
  <<ReferenceType("refObject", "User", Undefined,
                  Some(<<Property("name", PrimitiveType("string"), TRUE)>>),
                  Undefined, Undefined),
    ReferenceType("refEnum", "Color", Undefined, Undefined, Undefined,
                  Some(<<"red", "green">>)),
    ReferenceType("refObject", "Node", Undefined, Undefined, Undefined, Undefined)>>

atLeastFive == <<[key |-> "minimum", value |-> Validator(Some("at least five"), Some(Decimal(5, 0)))]>>

\* what a parameter that is no aggregate is: its type, whether it is required
\* and its validators
ParameterShapes ==
  {<<PrimitiveType("double"), TRUE, <<>>>>,
   <<PrimitiveType("string"), FALSE, atLeastFive>>,
   <<Reference(1), TRUE, <<>>>>,
   <<Reference(2), FALSE, <<>>>>,
   <<Reference(3), FALSE, atLeastFive>>,
   <<ArrayType(Reference(1)), TRUE, atLeastFive>>,
   <<ArrayType(PrimitiveType("string")), FALSE, <<>>>>,
   <<UnionType(<<Reference(1), PrimitiveType("string")>>), FALSE, <<>>>>,
   <<ArrayType(ArrayType(PrimitiveType("string"))), TRUE, <<>>>>,
   <<ArrayType(UnionType(<<Reference(1), PrimitiveType("string")>>)), FALSE, <<>>>>}

ParameterKeys == {"x", "y", "a"}

SubParameterNames == {"x", "y", "z"}

\* the sequences of distinct elements of the set with 1 to n elements
DistinctLists(set, n) ==
  UNION {{list \in [1..k -> set] : \A i, j \in 1..k : i # j => list[i] # list[j]} : k \in 1..n}

\* the sub-parameter of the name: z is optional and has a validator
SubParameter(name) ==
  TsoaParameter(name, "body-prop", PrimitiveType("string"), name # "z",
                IF name = "z" THEN atLeastFive ELSE <<>>, Undefined)

\* what a parameter is: a shape, or the names of the sub-parameters of an aggregate
ParameterKinds ==
  {[shape |-> Some(shape), names |-> <<>>] : shape \in ParameterShapes}
  \cup {[shape |-> Undefined, names |-> names] :
          names \in DistinctLists(SubParameterNames, MaxSubParameters)}

\* the parameter of the name and the kind
ParameterOf(name, kind) ==
  IF IsDefined(kind.shape)
  THEN TsoaParameter(name, "query", kind.shape[1][1], kind.shape[1][2], kind.shape[1][3], Undefined)
  ELSE TsoaParameter(name, "body", PrimitiveType("object"), TRUE, <<>>,
                     Some([i \in DOMAIN kind.names |-> SubParameter(kind.names[i])]))

\* the parameters of a method, by name, in the order of declaration
ParameterMap(keys, kinds) ==
  [i \in DOMAIN keys |-> [key |-> keys[i], value |-> ParameterOf(keys[i], kinds[i])]]

InitParameters ==
  /\ \E keys \in DistinctLists(ParameterKeys, MaxParameters) :
       \E kinds \in [DOMAIN keys -> ParameterKinds] : arg = ParameterMap(keys, kinds)
  /\ heap = SchemaHeap
  /\ nodes = <<>>
  /\ localReferenceTypeCache = EmptyCache
  /\ inProgressTypes = <<>>
  /\ referenceTypeMap = <<>>
  /\ circularDependencyResolvers = <<>>
  /\ status = "finished"
  /\ lastOp = "new"
  /\ lastCall = <<>>
  /\ nres = 0
  /\ ret = <<>>

\* the parameter schemas of the method, by parameter name
BuildParameterSchemas ==
  /\ lastOp = "new"
  /\ ret' = [i \in DOMAIN arg |->
               [key |-> arg[i].key, value |-> buildParameterSchema(heap, arg[i].value)]]
  /\ lastOp' = "buildParameterSchema"
  /\ UNCHANGED <<nodes, localReferenceTypeCache, inProgressTypes, heap, referenceTypeMap,
                 circularDependencyResolvers, status, lastCall, nres, arg>>

\* the property schemas of the parameters read as properties
BuildPropertySchemas ==
  /\ lastOp = "new"
  /\ ret' = [i \in DOMAIN arg |->
               [key |-> arg[i].key, value |-> buildPropertySchema(heap, arg[i].value)]]
  /\ lastOp' = "buildPropertySchema"
  /\ UNCHANGED <<nodes, localReferenceTypeCache, inProgressTypes, heap, referenceTypeMap,
                 circularDependencyResolvers, status, lastCall, nres, arg>>

\* the template flattens the parameter schemas of the method
FlattenAggregates ==
  /\ lastOp = "buildParameterSchema"
  /\ ret' = flattenAggregates(ret)
  /\ lastOp' = "flattenAggregates"
  /\ UNCHANGED <<nodes, localReferenceTypeCache, inProgressTypes, heap, referenceTypeMap,
                 circularDependencyResolvers, status, lastCall, nres, arg>>

NextParameters == BuildParameterSchemas \/ BuildPropertySchemas \/ FlattenAggregates

SpecParameters == InitParameters /\ [][NextParameters]_vars

-----------------------------------------------------------------------------
(* Controller (src/unnamed/part_001).  The object is the record             *)
(* [statusCode, headers]; headers is an object of optional strings keyed by *)
(* header name, and a header name is the name of an HTTP header.            *)

\* the field initializers of Controller
Controller == [statusCode |-> Undefined, headers |-> <<>>]

\* this.statusCode = statusCode
setStatus(this, statusCode) == [this EXCEPT !.statusCode = Some(statusCode)]

\* return this.statusCode
getStatus(this) == this.statusCode

\* this.headers = { [name]: value }: the variant of setHeader that C29 must reject
setOnlyHeader(this, name, value) ==
  [this EXCEPT !.headers = <<[key |-> name, value |-> value]>>]

\* this.headers[name] = value
setHeader(this, name, value) == [this EXCEPT !.headers = SetKey(@, name, value)]

\* return this.headers[name]: undefined for a name that is no key
getHeader(this, name) ==
  LET found == Get(this.headers, name)
  IN IF IsDefined(found) THEN found[1] ELSE Undefined

\* return this.headers
getHeaders(this) == this.headers

-----------------------------------------------------------------------------
(* The controller specification: the methods of one Controller, called in   *)
(* any order; arg holds the controller, lastCall the arguments of the last  *)
(* call and ret what it returned                                            *)

StatusCodes == {200, 201, 404}

HeaderNames == {"ETag", "Location", "Link"}

\* the values of the optional parameter value of setHeader
HeaderValues == {Undefined, Some("a"), Some("b")}

InitController ==
  /\ arg = Controller
  /\ nodes = <<>>
  /\ localReferenceTypeCache = EmptyCache
  /\ inProgressTypes = <<>>
  /\ heap = <<>>
  /\ referenceTypeMap = <<>>
  /\ circularDependencyResolvers = <<>>
  /\ status = "running"
  /\ lastOp = "new"
  /\ lastCall = <<>>
  /\ nres = 0
  /\ ret = <<>>

SetStatus(statusCode) ==
  /\ arg' = setStatus(arg, statusCode)
  /\ lastCall' = [statusCode |-> statusCode]
  /\ ret' = <<>>
  /\ lastOp' = "setStatus"
  /\ UNCHANGED <<nodes, localReferenceTypeCache, inProgressTypes, heap, referenceTypeMap,
                 circularDependencyResolvers, status, nres>>

GetStatus ==
  /\ ret' = getStatus(arg)
  /\ lastCall' = <<>>
  /\ lastOp' = "getStatus"
  /\ UNCHANGED <<nodes, localReferenceTypeCache, inProgressTypes, heap, referenceTypeMap,
                 circularDependencyResolvers, status, nres, arg>>

SetHeader(name, value) ==
  /\ arg' = setHeader(arg, name, value)
  /\ lastCall' = [name |-> name, value |-> value]
  /\ ret' = <<>>
  /\ lastOp' = "setHeader"
  /\ UNCHANGED <<nodes, localReferenceTypeCache, inProgressTypes, heap, referenceTypeMap,
                 circularDependencyResolvers, status, nres>>

GetHeader(name) ==
  /\ ret' = getHeader(arg, name)
  /\ lastCall' = [name |-> name]
  /\ lastOp' = "getHeader"
  /\ UNCHANGED <<nodes, localReferenceTypeCache, inProgressTypes, heap, referenceTypeMap,
                 circularDependencyResolvers, status, nres, arg>>

GetHeaders ==
  /\ ret' = getHeaders(arg)
  /\ lastCall' = <<>>
  /\ lastOp' = "getHeaders"
  /\ UNCHANGED <<nodes, localReferenceTypeCache, inProgressTypes, heap, referenceTypeMap,
                 circularDependencyResolvers, status, nres, arg>>

NextController ==
  \/ \E statusCode \in StatusCodes : SetStatus(statusCode)
  \/ GetStatus
  \/ \E name \in HeaderNames, value \in HeaderValues : SetHeader(name, value)
  \/ \E name \in HeaderNames : GetHeader(name)
  \/ GetHeaders

SpecController == InitController /\ [][NextController]_vars

-----------------------------------------------------------------------------
(* Properties of the resolver specification                                *)

\* whether the named declaration is a record with a field of its own type
HasFieldOfOwnType(refName) ==
  \E i \in DOMAIN nodes :
    /\ nodes[i].kind \in {"InterfaceDeclaration", "ClassDeclaration"}
    /\ nodes[i].name = refName
    /\ \E j \in DOMAIN nodes[i].members :
         nodes[i].members[j].type = Some(TypeReference(refName))

\* C1: for a record that has a field of its own type, once the run has completed
\* (every circular dependency resolver was called) each placeholder made for the
\* record has the properties of the descriptor stored for the record.
C1_PlaceholderPatched ==
  status = "finished" =>
    \A i \in DOMAIN circularDependencyResolvers :
      LET callback == circularDependencyResolvers[i]
      IN (/\ HasFieldOfOwnType(callback.refName)
          /\ callback.refName \in DOMAIN localReferenceTypeCache)
         => heap[callback.referenceType].properties
              = heap[localReferenceTypeCache[callback.refName]].properties

\* the run has completed and a placeholder of a record with a field of its own
\* type still has no properties, the stored descriptor having some
C1_PlaceholderUnpatched ==
  /\ status = "finished"
  /\ \E i \in DOMAIN circularDependencyResolvers :
       LET callback == circularDependencyResolvers[i]
       IN /\ HasFieldOfOwnType(callback.refName)
          /\ callback.refName \in DOMAIN localReferenceTypeCache
          /\ heap[callback.referenceType].properties = Undefined
          /\ IsDefined(heap[localReferenceTypeCache[callback.refName]].properties)

\* whether the i-th getReferenceType call of a resolve() found the name stored:
\* it was stored before the resolve() or by an earlier call of it
StoredBefore(cache, log, i) ==
  \/ log[i].name \in DOMAIN cache
  \/ \E j \in 1..(i - 1) :
       log[j].name = log[i].name /\ log[j].how \in {"resolved", "enum"}

C2_Step ==
  lastOp' # "clearCache" =>
    /\ \A name \in DOMAIN localReferenceTypeCache :
         /\ name \in DOMAIN localReferenceTypeCache'
         /\ localReferenceTypeCache'[name] = localReferenceTypeCache[name]
         /\ heap'[localReferenceTypeCache[name]] = heap[localReferenceTypeCache[name]]
    /\ nres' = nres + 1 =>
         /\ \A i \in DOMAIN lastCall'.log :
              StoredBefore(localReferenceTypeCache, lastCall'.log, i)
                => lastCall'.log[i].how = "cached"
         /\ (/\ lastCall'.err = NoError
             /\ lastCall'.type.dataType = "ref"
             /\ lastCall'.log[Len(lastCall'.log)].how = "cached")
            => /\ Len(lastCall'.log) = 1
               /\ lastCall'.type.ref = localReferenceTypeCache[lastCall'.log[1].name]

\* C2: in every step that is not a clearCache, every name stored in the cache stays
\* stored with the same descriptor object, unmodified; and in a resolve() every
\* getReferenceType call for a name that is stored is answered from the cache
\* (nothing is resolved again), the resolve() of a stored name returning that
\* object.
C2_CachedDescriptorReturned == [][C2_Step]_vars

\* a resolve() of a reference that was answered from the cache
C2_CacheHit ==
  /\ lastOp = "resolve"
  /\ lastCall.err = NoError
  /\ lastCall.type.dataType = "ref"
  /\ Len(lastCall.log) = 1
  /\ lastCall.log[1].how = "cached"

C3_Step ==
  /\ lastOp' = "clearCache" =>
       localReferenceTypeCache' = EmptyCache /\ inProgressTypes' = <<>>
  /\ (/\ lastOp = "clearCache"
      /\ nres' = nres + 1
      /\ lastCall'.typeNode.kind = "TypeReference"
      /\ lastCall'.err = NoError
      /\ Len(lastCall'.log) > 0)
     => lastCall'.log[Len(lastCall'.log)].how \in {"resolved", "enum"}

\* C3: after clearCache, whatever came before, the cache has no entries and no
\* name is in progress; and the resolve() of a reference that follows it answers
\* the reference by resolving it: neither from the cache nor by a placeholder.
C3_ClearCacheEmpties == [][C3_Step]_vars

\* a reference resolved, then the cache cleared, then the reference resolved
\* again: the heap holds two complete descriptors of the name
C3_ResolvedAgainAfterClearCache ==
  /\ lastOp = "resolve"
  /\ lastCall.after = "clearCache"
  /\ lastCall.err = NoError
  /\ lastCall.typeNode.kind = "TypeReference"
  /\ Len(lastCall.log) > 0
  /\ lastCall.log[Len(lastCall.log)].how = "resolved"
  /\ \E i \in DOMAIN heap :
       /\ i < lastCall.type.ref
       /\ heap[i].refName = heap[lastCall.type.ref].refName
       /\ IsDefined(heap[i].properties)

\* C4: every resolve() terminates: none recurses until the call stack is exhausted.
C4_ResolveTerminates ==
  lastOp = "resolve" => lastCall.err # RangeError

\* the resolve() of an alias whose target is an alias of it exhausted the stack
C4_AliasCycleOverflows ==
  /\ lastOp = "resolve"
  /\ nodes = GraphProgram("alias", "alias")
  /\ lastCall.err = RangeError

\* C5: the resolve() of a qualified name whose leading segment matches exactly one
\* exported module declaration returns (scope resolution terminates), and the
\* one of a qualified name whose leading segment matches none throws.
C5_ScopeResolutionTerminates ==
  (/\ lastOp = "resolve"
   /\ lastCall.typeNode.kind = "TypeReference"
   /\ Len(lastCall.typeNode.typeName) > 1)
  => LET matching == matchingModuleDeclarations(nodes, lastCall.typeNode.typeName[1])
     IN /\ Len(matching) = 1 => lastCall.err # Diverges
        /\ Len(matching) = 0 => lastCall.err.class = "GenerateMetadataError"

\* the resolve() of a qualified name never returned
C5_ScopeResolutionHangs ==
  /\ status = "hung"
  /\ lastCall.typeNode = QualifiedReference(<<"NS", "Inner">>)

\* C7: the descriptor of Page<User> is named PageUser, and the one of
\* Page<Array<User>>, as the one of Page<User[]>, is named PageUserArray.
C7_GenericName ==
  (lastOp = "resolve" /\ nodes = GenericsProgram /\ lastCall.err = NoError)
  => LET refName == heap[lastCall.type.ref].refName
         Page(T) == GenericReference("Page", <<T>>)
     IN /\ lastCall.typeNode = Page(TypeReference("User")) => refName = "PageUser"
        /\ lastCall.typeNode = Page(ArrayTypeNode(TypeReference("User")))
             => refName = "PageUserArray"
        /\ lastCall.typeNode = Page(GenericReference("Array", <<TypeReference("User")>>))
             => refName = "PageUserArray"

\* the descriptor of Page<Array<User>> is named PageArrayUser
C7_ArrayReferenceName ==
  /\ lastOp = "resolve"
  /\ lastCall.typeNode
       = GenericReference("Page", <<GenericReference("Array", <<TypeReference("User")>>)>>)
  /\ lastCall.err = NoError
  /\ heap[lastCall.type.ref].refName = "PageArrayUser"

\* the type parameters the declarations of the name declare
DeclaredTypeParameters(name) ==
  {Len(nodes[i].typeParameters) : i \in {j \in DOMAIN nodes : nodes[j].name = name}}

\* C8: the resolve() of a reference whose number of type arguments differs from
\* the number of type parameters of its declaration throws.
C8_ArityMismatchThrows ==
  (/\ lastOp = "resolve"
   /\ nodes = GenericsProgram
   /\ lastCall.typeNode.kind = "TypeReference"
   /\ Len(lastCall.typeNode.sub) \notin DeclaredTypeParameters(lastCall.typeNode.typeName[1]))
  => lastCall.err # NoError

\* User<string>, User declaring no type parameter, resolved to a descriptor
C8_ExtraArgumentAccepted ==
  /\ lastOp = "resolve"
  /\ lastCall.typeNode = GenericReference("User", <<string>>)
  /\ lastCall.err = NoError
  /\ heap[lastCall.type.ref].refName = "Userstring"

\* C9: Base having the properties a, b and Derived, which extends Base, the own
\* properties b, c: the properties of the descriptor of Derived are the ones of
\* Base followed by its own, and the model buildModels makes of it has exactly
\* the keys a, b, c, b with the schema of Derived's own b.  For every descriptor,
\* the model has a key for each property name, with the schema of the last
\* property of the name.
C9_InheritedThenOwn ==
  lastOp = "buildModels" =>
    \A i \in DOMAIN referenceTypeMap :
      LET referenceType == heap[referenceTypeMap[i].id]
          model == Get(ret, referenceTypeMap[i].name)[1]
      IN /\ IsDefined(referenceType.properties) =>
              \A j \in DOMAIN referenceType.properties[1] :
                LET property == referenceType.properties[1][j]
                IN (\A k \in DOMAIN referenceType.properties[1] :
                      k > j => referenceType.properties[1][k].name # property.name)
                   => Get(model.properties[1], property.name)
                        = Some(buildPropertySchema(heap, property))
         /\ (nodes = InheritanceProgram /\ referenceTypeMap[i].name = "Derived") =>
              /\ referenceType.properties
                   = Some(<<Property("a", PrimitiveType("string"), TRUE),
                            Property("b", PrimitiveType("string"), TRUE),
                            Property("b", PrimitiveType("double"), FALSE),
                            Property("c", PrimitiveType("double"), TRUE)>>)
              /\ Keys(model.properties[1]) = <<"a", "b", "c">>
              /\ Get(model.properties[1], "b")
                   = Some(PropertySchema(Some("double"), Undefined, Undefined, Undefined,
                                         Undefined, Undefined))

\* the models were built of a run that resolved Derived
C9_DerivedMaterialized ==
  /\ lastOp = "buildModels"
  /\ nodes = InheritanceProgram
  /\ IsDefined(Get(ret, "Derived"))
  /\ Keys(Get(ret, "Derived")[1].properties[1]) = <<"a", "b", "c">>

\* C10: for every descriptor and every value of noImplicitAdditionalProperties,
\* the additionalProperties of the model is the schema of the type of the index
\* signature when the descriptor has one; else false for
\* 'silently-remove-extras', 'throw-on-extras' and true, and true for undefined
\* and false.  additionalPropsHelper gives the JSON text of the same value, when
\* given the additionalProperties of the model and, for a descriptor without an
\* index signature, when given none.
C10_AdditionalPropertiesPolicy ==
  lastOp = "buildModels" =>
    \A i \in DOMAIN referenceTypeMap :
      LET referenceType == heap[referenceTypeMap[i].id]
          model == Get(ret, referenceTypeMap[i].name)[1]
          closed == arg \in {"silently-remove-extras", "throw-on-extras", "true"}
          answer == IF closed THEN "false" ELSE "true"
      IN IF IsDefined(referenceType.additionalProperties) THEN
           /\ model.additionalProperties.type = "object"
           /\ model.additionalProperties.object
                = Some(buildProperty(heap, referenceType.additionalProperties[1]))
           /\ (nodes = InheritanceProgram /\ referenceTypeMap[i].name = "Dictionary") =>
                /\ model.additionalProperties.object
                     = Some(PropertySchema(Undefined, Some("Base"), Undefined, Undefined,
                                           Undefined, Undefined))
                /\ additionalPropsHelper(arg, Some(model.additionalProperties))
                     = "{\"ref\":\"Base\"}"
         ELSE
           /\ model.additionalProperties = JsBoolean(~closed)
           /\ additionalPropsHelper(arg, Some(model.additionalProperties)) = answer
           /\ additionalPropsHelper(arg, Undefined) = answer

\* the models were built, extras being thrown on, of a run that resolved
\* Dictionary: one model has a schema as additionalProperties, another false
C10_DictionaryAndClosedModel ==
  /\ lastOp = "buildModels"
  /\ arg = "throw-on-extras"
  /\ IsDefined(Get(ret, "Dictionary"))
  /\ Get(ret, "Dictionary")[1].additionalProperties.type = "object"
  /\ IsDefined(Get(ret, "Base"))
  /\ Get(ret, "Base")[1].additionalProperties = JsBoolean(FALSE)

-----------------------------------------------------------------------------
(* Properties of the locator specification                                 *)

\* the statements that are candidates for the name T, the ones of them that are
\* not of a library file, and of these the ones marked @tsoaModel
Matches ==
  {i \in DOMAIN nodes :
     /\ nodes[i].kind \in {"InterfaceDeclaration", "ClassDeclaration",
                           "TypeAliasDeclaration", "EnumDeclaration"}
     /\ nodes[i].exported
     /\ nodes[i].name = "T"}
UserMatches == {i \in Matches : nodes[i].fileName \notin LibraryFiles}
MarkedMatches == {i \in UserMatches : nodes[i].jsDoc = tsoaModel}

\* whether getModelTypeDeclaration returned the only statement of the set
ReturnedTheOneOf(indices) ==
  \E i \in indices : indices = {i} /\ ret = Return(nodes[i])

\* whether getModelTypeDeclaration threw an error whose message holds the text
ThrewNaming(text) ==
  /\ ret.err.class = "GenerateMetadataError"
  /\ Includes(ret.err.message, text)

\* C6: getModelTypeDeclaration follows the six-step rule.  No candidate: an error
\* that names the type as not found.  One: it is returned.  Several: the ones of a
\* library file are dropped; none left is an error naming the type, one left is
\* returned; several left: the only one marked is returned, several marked is an
\* error, none marked is an error that lists the file of every one left.
C6_SixStepRule ==
  lastOp = "getModelTypeDeclaration" =>
    IF Cardinality(Matches) = 0 THEN
      ThrewNaming("No matching model found for referenced type T.")
    ELSE IF Cardinality(Matches) = 1 THEN ReturnedTheOneOf(Matches)
    ELSE IF Cardinality(UserMatches) = 0 THEN ThrewNaming("with name T")
    ELSE IF Cardinality(UserMatches) = 1 THEN ReturnedTheOneOf(UserMatches)
    ELSE IF Cardinality(MarkedMatches) = 1 THEN ReturnedTheOneOf(MarkedMatches)
    ELSE IF Cardinality(MarkedMatches) > 1 THEN
      ThrewNaming("Multiple models for T marked with '@tsoaModel'")
    ELSE
      /\ ThrewNaming("Multiple matching models found for referenced type T")
      /\ \A i \in UserMatches : Includes(ret.err.message, "\"" \o nodes[i].fileName \o "\"")

\* a candidate of a library file was dropped and, of the several left, the only
\* one marked was returned
C6_MarkedOneReturned ==
  /\ lastOp = "getModelTypeDeclaration"
  /\ Matches # UserMatches
  /\ Cardinality(UserMatches) > 1
  /\ Cardinality(MarkedMatches) = 1
  /\ ReturnedTheOneOf(MarkedMatches)

\* the descriptor createCircularDependencyResolver returns for the name
Placeholder(refName) ==
  ReferenceType("refObject", refName, Undefined, Undefined, Undefined, Undefined)

\* the heap indices registered in the reference type map under the name
StoredUnder(refName) ==
  {referenceTypeMap[k].id : k \in {k \in DOMAIN referenceTypeMap :
                                     referenceTypeMap[k].name = refName}}

\* the placeholder of the i-th callback after the callbacks ran in the order of their
\* registration: unchanged when nothing is stored under its name; else with the
\* description, the properties and the dataType of the stored descriptor, as an
\* earlier callback left it when that is a placeholder too
PatchedInOrder(i) ==
  LET callback == circularDependencyResolvers[i]
      before == heap[callback.referenceType]
  IN IF StoredUnder(callback.refName) = {} THEN heap'[callback.referenceType] = before
     ELSE \E id \in StoredUnder(callback.refName) :
            LET earlier == \E j \in 1..(i - 1) : circularDependencyResolvers[j].referenceType = id
                real == IF earlier THEN heap'[id] ELSE heap[id]
            IN heap'[callback.referenceType] =
                 [before EXCEPT !.description = real.description,
                                !.properties = real.properties,
                                !.dataType = real.dataType]

\* C14: no placeholder is modified while the resolution of the run is in progress; the
\* patches run only when the run completes, in the order of their registration, and a
\* patch whose name has no stored descriptor leaves its placeholder unchanged.
C14_PatchedOnlyOnFinish ==
  [][/\ status' # "finished" =>
          \A i \in DOMAIN circularDependencyResolvers' :
            heap'[circularDependencyResolvers'[i].referenceType]
              = Placeholder(circularDependencyResolvers'[i].refName)
     /\ lastOp' = "generate" =>
          /\ circularDependencyResolvers' = circularDependencyResolvers
          /\ DOMAIN heap' = DOMAIN heap
          /\ \A i \in DOMAIN circularDependencyResolvers : PatchedInOrder(i)
          /\ \A id \in DOMAIN heap :
               (\A i \in DOMAIN circularDependencyResolvers :
                  circularDependencyResolvers[i].referenceType # id)
               => heap'[id] = heap[id]]_vars

\* the run has completed: a placeholder has the properties of the stored descriptor
C14_PlaceholderPatchedOnFinish ==
  /\ lastOp = "generate"
  /\ \E i \in DOMAIN circularDependencyResolvers :
       LET callback == circularDependencyResolvers[i]
       IN /\ IsDefined(heap[callback.referenceType].properties)
          /\ \E id \in StoredUnder(callback.refName) :
               /\ id # callback.referenceType
               /\ heap[id].properties = heap[callback.referenceType].properties

\* the run has completed and a callback found nothing stored under its name
C14_NothingStored ==
  /\ lastOp = "generate"
  /\ \E i \in DOMAIN circularDependencyResolvers :
       /\ StoredUnder(circularDependencyResolvers[i].refName) = {}
       /\ heap[circularDependencyResolvers[i].referenceType]
            = Placeholder(circularDependencyResolvers[i].refName)

\* the names the last resolve() resolved to an object descriptor of their own
ResolvedNames ==
  {lastCall.log[i].name : i \in {i \in DOMAIN lastCall.log : lastCall.log[i].how = "resolved"}}

InProgressNames == {inProgressTypes[i] : i \in DOMAIN inProgressTypes}

\* C15: when the resolution of an object reference named N has completed successfully,
\* N is stored in the cache and is no longer in the in-progress set; between the
\* resolutions the in-progress set is empty.
C15_NotInProgressAtRest ==
  /\ (lastOp = "resolve" /\ lastCall.err = NoError) =>
       \A name \in ResolvedNames :
         name \in DOMAIN localReferenceTypeCache /\ name \notin InProgressNames
  /\ inProgressTypes = <<>>

\* a resolve() has returned the descriptor of an object and its name is stored and
\* still in the in-progress set
C15_StillInProgress ==
  /\ lastOp = "resolve"
  /\ lastCall.err = NoError
  /\ lastCall.type.dataType = "ref"
  /\ heap[lastCall.type.ref].refName \in ResolvedNames
  /\ heap[lastCall.type.ref].refName \in DOMAIN localReferenceTypeCache
  /\ heap[lastCall.type.ref].refName \in InProgressNames

\* whether the type node refers to a type alias whose target is a union with a member
\* that is no literal
RefersToMixedUnionAlias(typeNode) ==
  /\ typeNode.kind = "TypeReference"
  /\ Len(typeNode.typeName) = 1
  /\ \E k \in DOMAIN nodes :
       /\ nodes[k].kind = "TypeAliasDeclaration"
       /\ nodes[k].name = typeNode.typeName[1]
       /\ nodes[k].type[1].kind = "UnionType"
       /\ \E m \in DOMAIN nodes[k].type[1].sub : nodes[k].type[1].sub[m].kind # "LiteralType"

\* C19: a reference to a type alias whose target is a union with at least one member
\* that is no literal resolves to any without an error, and the resolution stores
\* nothing in the cache and marks nothing as in progress.
C19_MixedUnionAliasIsAny ==
  [][(nres' = nres + 1 /\ RefersToMixedUnionAlias(lastCall'.typeNode)) =>
       /\ lastCall'.err = NoError
       /\ lastCall'.type = PrimitiveType("any")
       /\ localReferenceTypeCache' = localReferenceTypeCache
       /\ inProgressTypes' = inProgressTypes
       /\ UNCHANGED <<heap, referenceTypeMap, circularDependencyResolvers>>]_vars

\* the alias Tagged = Holder | string was resolved to any and is neither stored nor
\* in progress
C19_TaggedResolved ==
  /\ lastOp = "resolve"
  /\ lastCall.typeNode = TypeReference("Tagged")
  /\ RefersToMixedUnionAlias(lastCall.typeNode)
  /\ lastCall.type = PrimitiveType("any")
  /\ "Tagged" \notin DOMAIN localReferenceTypeCache
  /\ "Tagged" \notin InProgressNames

\* whether the sequence starts with the elements of the prefix
StartsWithProperties(properties, prefix) ==
  /\ Len(prefix) <= Len(properties)
  /\ SubSeq(properties, 1, Len(prefix)) = prefix

\* C20: once the run has completed, the properties of every stored descriptor of a
\* record or class that extends a base start with the properties of the stored
\* descriptor of the base, also when the base was still in progress when the derived
\* one was resolved.
C20_BasePropertiesInherited ==
  status = "finished" =>
    \A k \in DOMAIN nodes :
      (/\ nodes[k].kind \in {"InterfaceDeclaration", "ClassDeclaration"}
       /\ Len(nodes[k].heritage) > 0
       /\ nodes[k].name \in DOMAIN localReferenceTypeCache
       /\ nodes[k].heritage[1] \in DOMAIN localReferenceTypeCache)
      => LET derived == heap[localReferenceTypeCache[nodes[k].name]]
             base == heap[localReferenceTypeCache[nodes[k].heritage[1]]]
         IN /\ IsDefined(derived.properties)
            /\ IsDefined(base.properties) =>
                 StartsWithProperties(derived.properties[1], base.properties[1])

\* A has a field of the type B and B extends A; the run entered at A has completed and
\* the stored descriptor of B has its own property only, A having the field
C20_InProgressBaseLost ==
  /\ status = "finished"
  /\ nodes = GraphProgram("field", "extends")
  /\ "A" \in DOMAIN localReferenceTypeCache
  /\ "B" \in DOMAIN localReferenceTypeCache
  /\ heap[localReferenceTypeCache["A"]].properties
       = Some(<<Property("other", Reference(localReferenceTypeCache["B"]), TRUE)>>)
  /\ heap[localReferenceTypeCache["B"]].properties
       = Some(<<Property("x", PrimitiveType("string"), FALSE)>>)

\* the properties of the descriptor stored under the name
StoredProperties(refName) == heap[localReferenceTypeCache[refName]].properties[1]

\* the names of the properties, in order
NamesOf(properties) == [i \in DOMAIN properties |-> properties[i].name]

\* C21: the descriptor stored for a type alias whose target is a single reference R
\* has the property list of the descriptor stored for R, its inherited properties
\* included.
C21_AliasHasPropertiesOfTarget ==
  \A k \in DOMAIN nodes :
    (/\ nodes[k].kind = "TypeAliasDeclaration"
     /\ nodes[k].type[1].kind = "TypeReference"
     /\ Len(nodes[k].type[1].typeName) = 1
     /\ nodes[k].name \in DOMAIN localReferenceTypeCache
     /\ nodes[k].type[1].typeName[1] \in DOMAIN localReferenceTypeCache)
    => StoredProperties(nodes[k].name) = StoredProperties(nodes[k].type[1].typeName[1])

\* DerivedAlias = Derived and Derived extends Base: the alias has the own properties
\* of Derived only, Derived having the ones of Base before them
C21_AliasLacksInherited ==
  /\ nodes = InheritanceProgram
  /\ "DerivedAlias" \in DOMAIN localReferenceTypeCache
  /\ "Derived" \in DOMAIN localReferenceTypeCache
  /\ NamesOf(StoredProperties("DerivedAlias")) = <<"b", "c">>
  /\ NamesOf(StoredProperties("Derived")) = <<"a", "b", "b", "c">>

\* what the descriptor is, its references read as names: the names of its properties
\* with the schemas of their types, and its enum values
Described(h, id) ==
  [refName |-> h[id].refName,
   properties |->
     IF IsDefined(h[id].properties)
     THEN Some([i \in DOMAIN h[id].properties[1] |->
                  [name |-> h[id].properties[1][i].name,
                   type |-> buildProperty(h, h[id].properties[1][i].type)]])
     ELSE Undefined,
   enums |-> h[id].enums]

\* the resolve() of the type node by a resolver that has resolved nothing yet
ResolvedAlone(typeNode, extractEnum) ==
  resolve([Current EXCEPT !.cache = EmptyCache, !.inProgress = <<>>, !.heap = <<>>,
                          !.refMap = <<>>, !.resolvers = <<>>],
          typeNode, Undefined, extractEnum, 1)

\* C23: a canonical name identifies one type within a run: the descriptor a resolve()
\* returns for a reference is the descriptor of that reference, the one a resolver
\* that has resolved nothing else returns for it, and never the one stored for a
\* reference with another declaration or with other type arguments.
C23_NameIdentifiesType ==
  (/\ lastOp = "resolve"
   /\ nodes = GenericsProgram
   /\ lastCall.err = NoError
   /\ lastCall.type.dataType = "ref")
  => LET alone == ResolvedAlone(lastCall.typeNode, lastCall.extractEnum)
     IN Described(heap, lastCall.type.ref) = Described(alone.s.heap, alone.v.ref)

\* Page<UserArray> was answered from the cache entry PageUserArray, which is the
\* descriptor of Page<User[]>: its item is an array of User
C23_AnsweredFromOtherType ==
  /\ lastOp = "resolve"
  /\ lastCall.typeNode = GenericReference("Page", <<TypeReference("UserArray")>>)
  /\ lastCall.err = NoError
  /\ lastCall.log[Len(lastCall.log)] = [name |-> "PageUserArray", how |-> "cached"]
  /\ "User" \in DOMAIN localReferenceTypeCache
  /\ Described(heap, lastCall.type.ref).properties[1][1]
       = [name |-> "item",
          type |-> buildProperty(heap, ArrayType(Reference(localReferenceTypeCache["User"])))]

\* the names a resolve() step has marked as in progress and has not resolved: the
\* name that failed and the names whose resolution enclosed it
Abandoned ==
  {inProgressTypes'[i] : i \in DOMAIN inProgressTypes'}
    \ (InProgressNames
       \cup {lastCall'.log[i].name :
               i \in {i \in DOMAIN lastCall'.log : lastCall'.log[i].how = "resolved"}})

RECURSIVE HasEnumReference(_)
\* whether a reference to an enum descriptor occurs in the type: the type itself, the
\* element of an array, a member of a union or an intersection
HasEnumReference(type) ==
  \/ type.dataType = "ref" /\ heap[type.ref].dataType = "refEnum"
  \/ \E i \in DOMAIN type.sub : HasEnumReference(type.sub[i])

\* C25: a resolve() with extractEnum = false gives for the name of an enumeration an
\* inline enum of the values of the members (the literal value, else the index), and no
\* reference to an enum descriptor occurs in the type it returns, arrays, unions and
\* intersections included; with extractEnum = true it gives a reference to the cached
\* descriptor with the same values.
C25_InlineEnumEverywhere ==
  (lastOp = "resolve" /\ nodes = EnumProgram /\ lastCall.err = NoError) =>
    /\ ~lastCall.extractEnum =>
         /\ ~HasEnumReference(lastCall.type)
         /\ lastCall.typeNode = TypeReference("Color")
              => lastCall.type = EnumerateType(<<"0", "\"G\"">>)
    /\ (lastCall.extractEnum /\ lastCall.typeNode = TypeReference("Color")) =>
         /\ lastCall.type = Reference(localReferenceTypeCache["Color"])
         /\ heap[lastCall.type.ref].dataType = "refEnum"
         /\ heap[lastCall.type.ref].enums = Some(<<"0", "\"G\"">>)

\* Color[] resolved with extractEnum = false is an array of a reference to the enum
\* descriptor of Color
C25_ArrayOfEnumReference ==
  /\ lastOp = "resolve"
  /\ lastCall.typeNode = ArrayTypeNode(TypeReference("Color"))
  /\ ~lastCall.extractEnum
  /\ lastCall.err = NoError
  /\ lastCall.type = ArrayType(Reference(localReferenceTypeCache["Color"]))
  /\ heap[localReferenceTypeCache["Color"]].dataType = "refEnum"

\* Color resolved with extractEnum = false is the inline enum
C25_InlineEnum ==
  /\ lastOp = "resolve"
  /\ lastCall.typeNode = TypeReference("Color")
  /\ ~lastCall.extractEnum
  /\ lastCall.type = EnumerateType(<<"0", "\"G\"">>)

\* the names of the properties of the descriptor stored under the name by a resolver
\* that has resolved the entry point and nothing else
NamesWhenEnteredAt(entry, refName) ==
  LET alone == ResolvedAlone(entry, TRUE)
  IN NamesOf(alone.s.heap[alone.s.cache[refName]].properties[1])

\* whether a resolver that has resolved the entry point and nothing else has stored a
\* descriptor under the name
StoredWhenEnteredAt(entry, refName) ==
  LET alone == ResolvedAlone(entry, TRUE)
  IN ~Thrown(alone) /\ refName \in DOMAIN alone.s.cache

\* C27: the descriptors of a completed run do not depend on the entry point that was
\* resolved first: each stored descriptor has the property names, in order, that it
\* has in a run that enters at any other entry point and stores it.
C27_OrderIndependent ==
  (status = "finished" /\ nodes \in GraphPrograms) =>
    \A refName \in DOMAIN localReferenceTypeCache, entry \in GraphEntries :
      StoredWhenEnteredAt(entry, refName)
      => NamesOf(StoredProperties(refName)) = NamesWhenEnteredAt(entry, refName)

\* A has a field of the type B and B extends A: the run entered at A has completed and
\* B has the property x only; in a run entered at B it has other and x
C27_EntryChangesProperties ==
  /\ status = "finished"
  /\ nodes = GraphProgram("field", "extends")
  /\ lastCall # <<>>
  /\ lastCall.typeNode = TypeReference("A")
  /\ lastCall.after = "new"
  /\ "B" \in DOMAIN localReferenceTypeCache
  /\ NamesOf(StoredProperties("B")) = <<"x">>
  /\ StoredWhenEnteredAt(TypeReference("B"), "B")
  /\ NamesWhenEnteredAt(TypeReference("B"), "B") = <<"other", "x">>

RECURSIVE RefsOfSchema(_)
\* the names the schema and the schemas within it (array, subSchemas) point to
RefsOfSchema(schema) ==
  (IF IsDefined(schema.ref) THEN {schema.ref[1]} ELSE {})
  \cup (IF IsDefined(schema.array) THEN RefsOfSchema(schema.array[1]) ELSE {})
  \cup (IF IsDefined(schema.subSchemas)
        THEN UNION {RefsOfSchema(schema.subSchemas[1][k]) : k \in DOMAIN schema.subSchemas[1]}
        ELSE {})

\* the names the properties and the additionalProperties of the model point to
RefsOfModel(model) ==
  (IF IsDefined(model.properties)
   THEN UNION {RefsOfSchema(model.properties[1][k].value) : k \in DOMAIN model.properties[1]}
   ELSE {})
  \cup (IF IsDefined(model.additionalProperties.object)
        THEN RefsOfSchema(model.additionalProperties.object[1]) ELSE {})

\* the names the models of buildModels() are registered under
ModelNames == {ret[i].key : i \in DOMAIN ret}

\* C28: the models built after a completed run are closed and complete: every name a
\* property, an array element or a dictionary value of a model points to is the name
\* of a model, and the model of each name is the one of the descriptor the resolver
\* has stored under the name, not the one of a placeholder without properties.
C28_ModelsClosedAndComplete ==
  lastOp = "buildModels" =>
    \A i \in DOMAIN ret :
      /\ RefsOfModel(ret[i].value) \subseteq ModelNames
      /\ ret[i].key \in DOMAIN localReferenceTypeCache
         => ret[i].value = buildModel(heap, heap[localReferenceTypeCache[ret[i].key]], arg)

\* B has a field of its own type and is reached only as the base of A, in the one
\* resolve() of the run: the model of B has no properties although the descriptor stored under B has the property child
C28_PlaceholderModel ==
  /\ lastOp = "buildModels"
  /\ nodes = GraphProgram("extends", "self")
  /\ nres = 1
  /\ "B" \in DOMAIN localReferenceTypeCache
  /\ NamesOf(StoredProperties("B")) = <<"child">>
  /\ \E i \in DOMAIN ret : ret[i].key = "B" /\ ret[i].value.properties = Undefined

\* C30: every entry of the reference cache is stored under its own canonical name:
\* the descriptor stored under a key has the key as its refName, also the descriptor
\* of an enum that a qualified name refers to.
C30_StoredUnderOwnName ==
  \A refName \in DOMAIN localReferenceTypeCache :
    heap[localReferenceTypeCache[refName]].refName = refName

\* the enum that NS.E refers to is stored under NS.E and its descriptor is named E
C30_QualifiedEnumUnderFullName ==
  /\ nodes = EnumProgram
  /\ "NS.E" \in DOMAIN localReferenceTypeCache
  /\ heap[localReferenceTypeCache["NS.E"]].dataType = "refEnum"
  /\ heap[localReferenceTypeCache["NS.E"]].refName = "E"

\* the descriptors of an object and of an enum referred to by a simple name are
\* stored under their refName
C30_SimpleNamesUnderOwnName ==
  /\ nodes = EnumProgram
  /\ {"Color", "Holder"} \subseteq DOMAIN localReferenceTypeCache
  /\ heap[localReferenceTypeCache["Color"]].refName = "Color"
  /\ heap[localReferenceTypeCache["Holder"]].refName = "Holder"

-----------------------------------------------------------------------------
(* Properties of the validator specification                               *)

\* the tags of the documentation block of the property or of the method
DocumentedTags == IF arg.kind = "Parameter" THEN arg.parentJsDoc[1].tags ELSE arg.jsDoc[1].tags

NumericConstraints ==
  {"minimum", "maximum", "minItems", "maxItems", "minLength", "maxLength"}

\* the comments whose first word is a number
NumericComments == {Some("5"), Some("1.5"), Some("5 at least five")}

\* whether the tag is a numeric constraint whose value is missing or no number
IsBadNumericConstraint(tag) ==
  tag.tagName \in NumericConstraints /\ tag.comment \notin NumericComments

\* whether extraction fails at the tag: a numeric constraint without a number, a
\* pattern without a value or a date constraint without a date
IsInvalidTag(tag) ==
  \/ IsBadNumericConstraint(tag)
  \/ tag.tagName = "pattern" /\ tag.comment = Undefined
  \/ tag.tagName = "minDate" /\ tag.comment # Some("2017-05-14")

\* C11: when a tag of a property is one of minimum, maximum, minItems, maxItems,
\* minLength, maxLength and its value is missing or not a number,
\* getPropertyValidators throws an error and returns no validators; the message
\* names the constraint of the tag, extraction stopping at the first tag of the
\* documentation block that is invalid.
C11_BadNumericConstraintThrows ==
  lastOp = "getPropertyValidators" =>
    \A i \in DOMAIN DocumentedTags :
      IsBadNumericConstraint(DocumentedTags[i]) =>
        /\ ret.err.class = "GenerateMetadataError"
        /\ ret.v = ""
        /\ (\A j \in 1..(i - 1) : ~IsInvalidTag(DocumentedTags[j])) =>
             ret.err.message = DocumentedTags[i].tagName \o " parameter use number."

\* a maximum of abc after a well-formed minimum made getPropertyValidators throw
C11_SecondTagThrows ==
  /\ lastOp = "getPropertyValidators"
  /\ DocumentedTags = <<JSDocTag("minimum", Some("5")), JSDocTag("maximum", Some("abc"))>>
  /\ ret.err = GenerateMetadataError("maximum parameter use number.")

\* the word that addresses a tag of a method to a parameter
Addressee(tag) == SplitFirst(tag.comment[1])

\* C16: the validators and the tag names extracted for a parameter come only from
\* tags addressed to exactly that parameter.
C16_OnlyOwnAnnotations ==
  /\ (lastOp = "getParameterValidators" /\ ~Failed(ret)) =>
       \A k \in DOMAIN ret.v :
         \E i \in DOMAIN DocumentedTags :
           /\ DocumentedTags[i].tagName = ret.v[k].key
           /\ IsDefined(DocumentedTags[i].comment)
           /\ Addressee(DocumentedTags[i]) = arg.name
  /\ (lastOp = "getJSDocTagNames" /\ arg.kind = "Parameter") =>
       \A k \in DOMAIN ret.v :
         \E i \in DOMAIN DocumentedTags :
           /\ DocumentedTags[i].tagName = ret.v[k]
           /\ IsDefined(DocumentedTags[i].comment)
           /\ Addressee(DocumentedTags[i]) = arg.name

\* the parameter id got the minimum that is addressed to idx
C16_PrefixAnnotationAttached ==
  /\ lastOp = "getParameterValidators"
  /\ arg.name = "id"
  /\ DocumentedTags = <<JSDocTag("minimum", Some("idx 7"))>>
  /\ ret = Return(<<[key |-> "minimum",
                     value |-> Validator(Undefined, Some(Decimal(7, 0)))]>>)

-----------------------------------------------------------------------------
(* Properties of the primitive specification                                 *)

\* the names of the tags of the parent, in order, that carry a text and are among
\* the names; none when there is no parent
AnnotationsAmong(names) ==
  IF ~IsDefined(arg.parentNode) THEN <<>>
  ELSE LET tags == arg.parentNode[1].jsDoc[1].tags
           RECURSIVE from(_)
           from(i) == IF i > Len(tags) THEN <<>>
                      ELSE IF IsDefined(tags[i].comment) /\ tags[i].tagName \in names
                      THEN <<tags[i].tagName>> \o from(i + 1)
                      ELSE from(i + 1)
       IN from(1)

NumberRefinements == AnnotationsAmong({"isInt", "isLong", "isFloat", "isDouble"})

DateRefinements == AnnotationsAmong({"isDate", "isDateTime"})

\* the tag the claim gives to the type node under the annotations of the parent
ExpectedPrimitiveTag ==
  CASE arg.typeNode = Keyword("StringKeyword") -> "string"
    [] arg.typeNode = Keyword("BooleanKeyword") -> "boolean"
    [] arg.typeNode = Keyword("VoidKeyword") -> "void"
    [] arg.typeNode = Keyword("NumberKeyword") ->
         IF NumberRefinements = <<>> THEN "double"
         ELSE IF NumberRefinements[1] = "isInt" THEN "integer"
         ELSE IF NumberRefinements[1] = "isLong" THEN "long"
         ELSE IF NumberRefinements[1] = "isFloat" THEN "float"
         ELSE "double"
    [] arg.typeNode = TypeReference("Date") ->
         IF DateRefinements = <<>> THEN "datetime"
         ELSE IF DateRefinements[1] = "isDate" THEN "date" ELSE "datetime"

-----------------------------------------------------------------------------
(* Properties of the parameter specification                                 *)

\* the names of the sub-parameters of the aggregate parameter
SubParameterNamesOf(parameter) ==
  {parameter.subParameters[1][i].name : i \in DOMAIN parameter.subParameters[1]}

\* the names that a sub-parameter of an aggregate shares with a sibling parameter
\* that is no aggregate
CollidingNames ==
  {arg[i].key : i \in {i \in DOMAIN arg :
     /\ ~isAggregateParameter(arg[i].value)
     /\ \E j \in DOMAIN arg : /\ isAggregateParameter(arg[j].value)
                              /\ arg[i].key \in SubParameterNamesOf(arg[j].value)}}

\* C12: flattening fails with the duplicate-name error whenever a sub-parameter of an
\* aggregate has the name of a sibling parameter, whatever the order of the parameters.
C12_CollisionThrows ==
  (lastOp = "flattenAggregates" /\ CollidingNames # {}) =>
    \E name \in CollidingNames :
      ret = Throw(ReferenceError("Duplicate parameter name '" \o name \o "'"))

\* the siblings x and y come before the aggregate with the sub-parameter x: the
\* flattening returns a map in which x is the sub-parameter
C12_SiblingOverwritten ==
  /\ lastOp = "flattenAggregates"
  /\ Len(arg) = 3
  /\ arg[1].key = "x" /\ ~isAggregateParameter(arg[1].value)
  /\ arg[2].key = "y" /\ ~isAggregateParameter(arg[2].value)
  /\ isAggregateParameter(arg[3].value)
  /\ SubParameterNamesOf(arg[3].value) = {"x"}
  /\ ~Failed(ret)
  /\ Keys(ret.v) = <<"x", "y">>
  /\ Get(ret.v, "x")[1].in = "body-prop"

\* the aggregate comes before its sibling x: the flattening throws
C12_AggregateFirstThrows ==
  /\ lastOp = "flattenAggregates"
  /\ Len(arg) = 2
  /\ isAggregateParameter(arg[1].value)
  /\ SubParameterNamesOf(arg[1].value) = {"x"}
  /\ arg[2].key = "x"
  /\ ret = Throw(ReferenceError("Duplicate parameter name 'x'"))

\* whether the schema carries validators and required as the source has them:
\* validators only when the source has some, required only when it is true
OptionalFieldsAsSource(schema, source) ==
  /\ IF source.validators = <<>> THEN schema.validators = Undefined
     ELSE schema.validators = Some(source.validators)
  /\ IF source.required THEN schema.required = Some(TRUE)
     ELSE schema.required = Undefined

\* C17: in every materialized property schema and parameter schema, sub-parameters
\* included, validators is present only when the source has validators and required is
\* present only with the value true.
C17_OptionalFieldsOmitted ==
  lastOp \in {"buildPropertySchema", "buildParameterSchema"} =>
    \A i \in DOMAIN ret :
      /\ OptionalFieldsAsSource(ret[i].value, arg[i].value)
      /\ (lastOp = "buildParameterSchema" /\ isAggregateParameter(arg[i].value)) =>
           /\ IsDefined(ret[i].value.subParameters)
           /\ \A k \in DOMAIN arg[i].value.subParameters[1] :
                OptionalFieldsAsSource(ret[i].value.subParameters[1][k],
                                       arg[i].value.subParameters[1][k])

\* property schemas and parameter schemas of a required parameter without validators
\* and of an optional one with validators
C17_BothOmittedAndPresent ==
  /\ lastOp \in {"buildPropertySchema", "buildParameterSchema"}
  /\ \E i, j \in DOMAIN ret :
       /\ arg[i].value.required /\ arg[i].value.validators = <<>>
       /\ ret[i].value.required = Some(TRUE) /\ ret[i].value.validators = Undefined
       /\ ~arg[j].value.required /\ arg[j].value.validators # <<>>
       /\ ret[j].value.required = Undefined /\ IsDefined(ret[j].value.validators)

\* whether the schema is nothing but a pointer to the name
IsNamePointer(schema, refName) ==
  /\ schema.ref = Some(refName)
  /\ schema.dataType = Undefined
  /\ schema.enums = Undefined
  /\ schema.array = Undefined
  /\ schema.subSchemas = Undefined
  /\ "properties" \notin DOMAIN schema

\* whether the schema materializes the type as the claim has it, where the type is
\* a reference, an array of a reference or a union with references
ReferencesAsPointers(schema, type) ==
  /\ type.dataType = "ref" => IsNamePointer(schema, SchemaHeap[type.ref].refName)
  /\ (type.dataType = "array" /\ type.sub[1].dataType = "ref") =>
       /\ schema.dataType = Some("array")
       /\ schema.ref = Undefined
       /\ IsDefined(schema.array)
       /\ IsNamePointer([schema.array[1] EXCEPT !.required = Undefined, !.validators = Undefined],
                        SchemaHeap[type.sub[1].ref].refName)
  /\ type.dataType = "union" =>
       /\ IsDefined(schema.subSchemas)
       /\ \A k \in DOMAIN type.sub :
            type.sub[k].dataType = "ref" =>
              IsNamePointer(schema.subSchemas[1][k], SchemaHeap[type.sub[k].ref].refName)

\* C18: every reference type (a reference to an object, to an enum, a placeholder) is
\* materialized as a pointer to its canonical name, without dataType and without the
\* properties or the enum values of the descriptor; an array of a reference type has
\* the pointer as its array.
C18_ReferenceIsNamePointer ==
  lastOp \in {"buildPropertySchema", "buildParameterSchema"} =>
    \A i \in DOMAIN ret : ReferencesAsPointers(ret[i].value, arg[i].value.type)

\* the schemas of a reference to an enum, of a placeholder and of an array of
\* references to an object
C18_PointersMaterialized ==
  /\ lastOp = "buildPropertySchema"
  /\ \E i, j, k \in DOMAIN ret :
       /\ arg[i].value.type = Reference(2) /\ ret[i].value.ref = Some("Color")
       /\ arg[j].value.type = Reference(3) /\ ret[j].value.ref = Some("Node")
       /\ arg[k].value.type = ArrayType(Reference(1))
       /\ ret[k].value.array[1].ref = Some("User")

-----------------------------------------------------------------------------
(* Properties of the literal specification                                   *)

\* the result of resolving the type node, once it was resolved
ResultOf(typeNode) == ret[CHOOSE i \in DOMAIN ret : ret[i].typeNode = typeNode]

BothResolved == Len(ret) = 2

\* C22: a reference to a type alias of a union of literals resolves to the enum the
\* union resolves to when written inline: the same values in the same order, for
\* string, numeric and boolean literals, the boolean ones as "true" and "false".
C22_AliasEnumIsInlineEnum ==
  BothResolved =>
    /\ ResultOf(TypeReference("Choice")).err = NoError
    /\ ResultOf(TypeReference("Choice")).v = ResultOf(arg).v

\* the alias of true | 25 resolved to the values "ru" and "", the union itself to
\* "true" and "25"
C22_AliasCutsLiterals ==
  /\ BothResolved
  /\ arg = UnionTypeNode(<<LiteralTypeNode("TrueKeyword", ""),
                           LiteralTypeNode("NumericLiteral", "25")>>)
  /\ ResultOf(arg).v = EnumerateType(<<"true", "25">>)
  /\ ResultOf(TypeReference("Choice")).v = EnumerateType(<<"ru", "">>)

\* the alias of "a" | "bc" and the union itself resolved to the values a and bc
C22_StringLiteralsAgree ==
  /\ BothResolved
  /\ arg = UnionTypeNode(<<LiteralTypeNode("StringLiteral", "a"),
                           LiteralTypeNode("StringLiteral", "bc")>>)
  /\ ResultOf(arg).v = EnumerateType(<<"a", "bc">>)
  /\ ResultOf(TypeReference("Choice")).v = EnumerateType(<<"a", "bc">>)

\* C26: the array of the schema of an array type is the schema of the element type,
\* whatever the element is: a nested array keeps its own array, and a union or an
\* intersection keeps the list of its sub-schemas.
C26_ArrayElementMaterialized ==
  lastOp \in {"buildPropertySchema", "buildParameterSchema"} =>
    \A i \in DOMAIN ret :
      arg[i].value.type.dataType = "array" =>
        ret[i].value.array = Some(buildProperty(heap, arg[i].value.type.sub[1]))

\* the schema of string[][] has an array without an array of its own, and the one of
\* (User | string)[] an array without sub-schemas
C26_ElementSchemaLost ==
  /\ lastOp = "buildPropertySchema"
  /\ \E i, j \in DOMAIN ret :
       /\ arg[i].value.type = ArrayType(ArrayType(PrimitiveType("string")))
       /\ ret[i].value.array
            = Some(PropertySchema(Some("array"), Undefined, Undefined, Undefined,
                                  Undefined, Undefined))
       /\ arg[j].value.type = ArrayType(UnionType(<<Reference(1), PrimitiveType("string")>>))
       /\ ret[j].value.array
            = Some(PropertySchema(Some("union"), Undefined, Undefined, Undefined,
                                  Undefined, Undefined))

\* the schema of string[] has the schema of string as its array
C26_PrimitiveElementKept ==
  /\ lastOp = "buildPropertySchema"
  /\ \E i \in DOMAIN ret :
       /\ arg[i].value.type = ArrayType(PrimitiveType("string"))
       /\ ret[i].value.array = Some(buildProperty(heap, PrimitiveType("string")))

-----------------------------------------------------------------------------
(* Properties of the controller specification                              *)

\* whether the two controllers have the same value for every header name but the one
SameHeadersBut(this, other, name) ==
  \A n \in HeaderNames \ {name} : getHeader(this, n) = getHeader(other, n)

\* what each method of the Controller does to the status and to the headers
ControllerStep ==
  /\ lastOp' = "setStatus" =>
       /\ getStatus(arg') = Some(lastCall'.statusCode)
       /\ getHeaders(arg') = getHeaders(arg)
  /\ lastOp' = "setHeader" =>
       /\ getHeader(arg', lastCall'.name) = lastCall'.value
       /\ SameHeadersBut(arg', arg, lastCall'.name)
       /\ getStatus(arg') = getStatus(arg)
  /\ lastOp' = "getStatus" => (ret' = arg.statusCode /\ arg' = arg)
  /\ lastOp' = "getHeader" => (ret' = getHeader(arg, lastCall'.name) /\ arg' = arg)
  /\ lastOp' = "getHeaders" => arg' = arg

\* C29: the status and the headers of a Controller are independent cells that keep
\* the last value written: the status is undefined at first; setStatus sets the
\* status and leaves the headers as they are; setHeader sets the header of the name
\* and leaves the status and every other header as they are; the getters return the
\* value of the cell and change nothing.
C29_IndependentCells == getStatus(arg) = Undefined /\ [][ControllerStep]_vars

\* a header was written twice and getHeader returns the second value, the status and
\* another header being set
C29_LastWriteRead ==
  /\ lastOp = "getHeader"
  /\ lastCall.name = "ETag"
  /\ ret = Some("b")
  /\ Len(getHeaders(arg)) = 2
  /\ getHeader(arg, "Location") = Some("a")
  /\ getStatus(arg) = Some(404)

====
